---- MODULE Spec2Model ----
(***************************************************************************)
(* Actuarial computation engine of ADaaS (services/mortality_models.py,    *)
(* services/survival_models.py, services/reserving_chainladder.py), the    *)
(* analysis jobs that run it (api/v1/routes_analysis.py over               *)
(* utils/job_store.py) and the dataset registry                            *)
(* (utils/dataset_registry.py).                                            *)
(*                                                                         *)
(* Floating-point numbers are modelled as exact rationals <<num, den>> in  *)
(* lowest terms with den > 0; den = 0 marks the non-finite values: NaN is  *)
(* <<0, 0>> (0/0, a missing cell), Inf is <<1, 0>> and -Inf is <<-1, 0>>.   *)
(* Arrays are functions over 0..n-1, as the code indexes them.             *)
(***************************************************************************)
EXTENDS Integers, Sequences, FiniteSets, TLC

VARIABLES
    pc,          \* position in the running routine
    caller,      \* entry point that was called
    error,       \* exception raised ("" while none)
    ages,        \* compute_life_table: ages argument
    qx,          \* compute_life_table: qx argument
    radix,       \* compute_life_table: radix argument
    i,           \* loop index of the running loop
    lx, dx, Lx, Tx, ex,   \* compute_life_table: working arrays
    life_table,  \* compute_life_table: returned rows (<<>> until returned)
    csv_qx,      \* compute_mortality_dashboard: qx column as read from the CSV
    qx_raw,      \* compute_mortality_dashboard: qx_raw, rescaled in place
    kpis,        \* compute_mortality_dashboard: returned kpis
    has_origin,  \* run_chain_ladder_from_csv: CSV has an 'origin' column
    n_dev_cols,  \* run_chain_ladder_from_csv: number of non-origin columns
    triangle,    \* run_chain_ladder_from_csv: numeric triangle, rows of cells
    dev_factors, \* run_chain_ladder_from_csv: development factors
    ultimate,    \* run_chain_ladder_from_csv: projected ultimates
    latest_diagonal, \* run_chain_ladder_from_csv: latest diagonal
    result,      \* run_chain_ladder_from_csv: returned dictionary
    cox_rows,    \* compute_cox_model: len(df)
    cox_covariates, \* compute_cox_model: number of numeric covariates
    cox_complete,   \* compute_cox_model: len(cox_df), rows without a missing value
    cox_fault,   \* compute_cox_model: the step of the try block that throws, if any
    cox_fit_attempted, \* compute_cox_model: CoxPHFitter.fit was called
    cox_result,  \* compute_cox_model: returned dictionary
    graduated,   \* compute_mortality_dashboard: the three graduated series
    fitted_models, \* compute_mortality_dashboard: gompertz_fit and makeham_fit
    md_env,      \* compute_mortality_dashboard: what scipy did in the sub-models
    order,       \* whittaker_henderson: order of differences
    lambda_param, \* whittaker_henderson: smoothing parameter
    fit_outcome, \* fit_gompertz, fit_makeham: what curve_fit does
    spline_outcome, \* penalized_spline_smooth: what UnivariateSpline does
    ret,         \* value returned by a graduation or fitting routine
    ma_window_size, \* moving_average_smooth: the argument window_size
    ma_weighted, \* moving_average_smooth: the argument weighted
    ma_weights,  \* moving_average_smooth: the weights applied at each position
    job_files,   \* job_store: JOBS_DIR, the stored job of each job id ("None": no file)
    result_files, \* job_store: RESULTS_DIR, the result file of each job id
    job_kind,    \* routes_analysis: analysis_type of each job
    job_arg,     \* routes_analysis: what the endpoint passed as job_id
    job_pc,      \* routes_analysis: position of each job's process function
    job_exc,     \* routes_analysis: the exception caught by the process function
    registry_file, \* dataset_registry: contents of REGISTRY_FILE
    reg_op,      \* dataset_registry: the call each thread makes
    reg_pc,      \* dataset_registry: position of each thread in its call
    reg_local,   \* dataset_registry: each thread's local variable registry
    csv,         \* compute_survival_dashboard: the CSV file, its header and its lines
    df,          \* compute_survival_dashboard: the data frame
    copies,      \* compute_survival_dashboard: how often the CSV holds each of its lines
    strata_col,  \* compute_survival_dashboard: the argument
    time_col,    \* compute_survival_dashboard: resolved time column
    event_col,   \* compute_survival_dashboard: resolved event column
    sv_env,      \* compute_survival_dashboard: what lifelines does in the log-rank test
    meta, overall_km, sv_life_table, nelson_aalen, strata_result,
    sv_result    \* compute_survival_dashboard: returned dictionary

vars == <<pc, caller, error, ages, qx, radix, i, lx, dx, Lx, Tx, ex, life_table,
          csv_qx, qx_raw, kpis, has_origin, n_dev_cols, triangle, dev_factors, ultimate,
          latest_diagonal, result, cox_rows, cox_covariates, cox_complete, cox_fault,
          cox_fit_attempted, cox_result, graduated, fitted_models, md_env, order,
          lambda_param, fit_outcome, spline_outcome, ret, ma_window_size, ma_weighted,
          ma_weights, job_files, result_files, job_kind, job_arg, job_pc, job_exc,
          registry_file, reg_op, reg_pc, reg_local,
          csv, df, copies, strata_col, time_col,
          event_col, sv_env, meta, overall_km, sv_life_table, nelson_aalen, strata_result,
          sv_result>>

ltVars == <<ages, qx, radix, i, lx, dx, Lx, Tx, ex, life_table>>
mdVars == <<csv_qx, qx_raw, kpis, graduated, fitted_models, md_env>>
clVars == <<has_origin, n_dev_cols, triangle, dev_factors, ultimate,
            latest_diagonal, result>>
cxVars == <<cox_rows, cox_covariates, cox_complete, cox_fault, cox_fit_attempted,
            cox_result>>
\* the state of the routines other than the life table and the mortality dashboard
maVars == <<ma_window_size, ma_weighted, ma_weights>>
jobVars == <<job_files, result_files, job_kind, job_arg, job_pc, job_exc>>
regVars == <<registry_file, reg_op, reg_pc, reg_local>>
\* the state of the job store and of the dataset registry
ioVars == <<jobVars, regVars>>
grVars == <<order, lambda_param, fit_outcome, spline_outcome, ret, maVars, ioVars>>
svVars == <<csv, df, copies, strata_col, time_col, event_col, sv_env, meta, overall_km,
            sv_life_table, nelson_aalen, strata_result, sv_result>>
restVars == <<clVars, cxVars, grVars, svVars>>
\* the state of the routines other than the chain ladder
nonClVars == <<ltVars, mdVars, cxVars, grVars, svVars>>
\* the state of the routines other than the Cox model
nonCxVars == <<ltVars, mdVars, clVars, grVars, svVars>>
\* the state of the routines other than the graduation and fitting routines
nonGrVars == <<ltVars, mdVars, clVars, cxVars, svVars>>

----------------------------------------------------------------------------
(* Bounds of the model *)

MaxAges == 3

MaxOrigin == 2

MaxDev == 3

MaxCoxRows == 11

----------------------------------------------------------------------------
(* Exact rational arithmetic standing for the code's float arithmetic *)

Abs(n) == IF n < 0 THEN -n ELSE n

RECURSIVE GCD(_, _)
GCD(a, b) == IF b = 0 THEN a ELSE GCD(b, a % b)

LCM(a, b) == (a \div GCD(a, b)) * b

Norm(n, d) == LET g == GCD(Abs(n), d) IN <<n \div g, d \div g>>

R(n) == <<n, 1>>

Zero == R(0)

One == R(1)

RAdd(a, b) ==
    LET l == LCM(a[2], b[2])
    IN  Norm(a[1] * (l \div a[2]) + b[1] * (l \div b[2]), l)

RNeg(a) == <<-a[1], a[2]>>

RSub(a, b) == RAdd(a, RNeg(b))

RMul(a, b) ==
    LET g1 == GCD(Abs(a[1]), b[2])
        g2 == GCD(Abs(b[1]), a[2])
    IN  IF a[1] = 0 \/ b[1] = 0 THEN Zero
        ELSE <<(a[1] \div g1) * (b[1] \div g2), (a[2] \div g2) * (b[2] \div g1)>>

RInv(a) == IF a[1] > 0 THEN <<a[2], a[1]>> ELSE <<-a[2], -a[1]>>

NaN == <<0, 0>>

Sign(k) == IF k > 0 THEN 1 ELSE IF k < 0 THEN -1 ELSE 0

IsFinite(a) == a[2] # 0

\* numpy division: x / 0 is nan for x = 0 and +-inf otherwise
RDiv(a, b) == IF b[1] = 0 THEN <<Sign(a[1]), 0>> ELSE RMul(a, RInv(b))

RLe(a, b) ==
    LET l == LCM(a[2], b[2])
    IN  a[1] * (l \div a[2]) <= b[1] * (l \div b[2])

RLt(a, b) == RLe(a, b) /\ a # b

RAbs(a) == <<Abs(a[1]), a[2]>>

Len0(a) == Cardinality(DOMAIN a)

Zeros(n) == [k \in 0..(n - 1) |-> Zero]

Arrays(n, S) == [0..(n - 1) -> S]

----------------------------------------------------------------------------
(* compute_life_table(ages, qx, radix) *)

n == Len0(ages)

QxValues == {Zero, <<1, 4>>, <<1, 2>>, One}

Radixes == {0, 1, 100000}

FirstAges == {0, 60}

AgesFrom(a0, len) == [k \in 0..(len - 1) |-> a0 + k]

Raise(e) ==
    /\ pc' = "raised"
    /\ error' = e

\* lines 23-34: allocate the arrays, lx[0] = radix
LtAlloc ==
    /\ pc = "lt_alloc"
    /\ lx' = [Zeros(n + 1) EXCEPT ![0] = R(radix)]
    /\ dx' = Zeros(n)
    /\ Lx' = Zeros(n)
    /\ Tx' = Zeros(n)
    /\ ex' = Zeros(n)
    /\ i' = 0
    /\ pc' = "lt_lx"
    /\ UNCHANGED <<caller, error, ages, qx, radix, life_table, mdVars, restVars>>

DxAt(lxi, qxi) == RMul(lxi, qxi)

\* a slip of sign in the recursion
LxNext_added(lxi, dxi) == RAdd(lxi, dxi)

LxNext(lxi, dxi) == RSub(lxi, dxi)

\* lines 37-39: forward recursion
LtLxLoop ==
    /\ pc = "lt_lx"
    /\ IF i < n
       THEN IF i \notin DOMAIN qx
            THEN /\ Raise("IndexError")
                 /\ UNCHANGED <<i, lx, dx>>
            ELSE /\ dx' = [dx EXCEPT ![i] = DxAt(lx[i], qx[i])]
                 /\ lx' = [lx EXCEPT ![i + 1] = LxNext(lx[i], DxAt(lx[i], qx[i]))]
                 /\ i' = i + 1
                 /\ UNCHANGED <<pc, error>>
       ELSE /\ pc' = "lt_Lx"
            /\ i' = 0
            /\ UNCHANGED <<error, lx, dx>>
    /\ UNCHANGED <<caller, ages, qx, radix, Lx, Tx, ex, life_table, mdVars, restVars>>

LxAt(lxi, lxi1) == RDiv(RAdd(lxi, lxi1), R(2))

\* lines 42-44: person-years lived
LtLLoop ==
    /\ pc = "lt_Lx"
    /\ IF i < n
       THEN /\ Lx' = [Lx EXCEPT ![i] = LxAt(lx[i], lx[i + 1])]
            /\ i' = i + 1
            /\ UNCHANGED pc
       ELSE /\ pc' = "lt_Tx_last"
            /\ UNCHANGED <<i, Lx>>
    /\ UNCHANGED <<caller, error, ages, qx, radix, lx, dx, Tx, ex, life_table,
                   mdVars, restVars>>

\* line 47: Tx[n - 1] = Lx[n - 1]; index -1 of an empty array is out of bounds
LtTxLast ==
    /\ pc = "lt_Tx_last"
    /\ IF n = 0
       THEN /\ Raise("IndexError")
            /\ UNCHANGED <<i, Tx>>
       ELSE /\ Tx' = [Tx EXCEPT ![n - 1] = Lx[n - 1]]
            /\ i' = n - 2
            /\ pc' = "lt_Tx"
            /\ UNCHANGED error
    /\ UNCHANGED <<caller, ages, qx, radix, lx, dx, Lx, ex, life_table, mdVars, restVars>>

\* the accumulation forgotten
TxAt_own(txi1, Lxi) == Lxi

TxAt(txi1, Lxi) == RAdd(txi1, Lxi)

\* lines 48-49: backward recursion
LtTxLoop ==
    /\ pc = "lt_Tx"
    /\ IF i > -1
       THEN /\ Tx' = [Tx EXCEPT ![i] = TxAt(Tx[i + 1], Lx[i])]
            /\ i' = i - 1
            /\ UNCHANGED pc
       ELSE /\ pc' = "lt_ex"
            /\ i' = 0
            /\ UNCHANGED Tx
    /\ UNCHANGED <<caller, error, ages, qx, radix, lx, dx, Lx, ex, life_table,
                   mdVars, restVars>>

\* the guard of line 53 dropped
ExAt_unguarded(lxi, txi) == RDiv(txi, lxi)

ExAt(lxi, txi) == IF RLt(Zero, lxi) THEN RDiv(txi, lxi) ELSE Zero

\* lines 52-56: life expectancy
LtExLoop ==
    /\ pc = "lt_ex"
    /\ IF i < n
       THEN /\ ex' = [ex EXCEPT ![i] = ExAt(lx[i], Tx[i])]
            /\ i' = i + 1
            /\ UNCHANGED pc
       ELSE /\ pc' = "lt_frame"
            /\ UNCHANGED <<i, ex>>
    /\ UNCHANGED <<caller, error, ages, qx, radix, lx, dx, Lx, Tx, life_table,
                   mdVars, restVars>>

\* the survivors at the end of the interval reported (lx[1:])
Row_end(k) ==
    [age |-> ages[k], qx |-> qx[k], px |-> RSub(One, qx[k]), lx |-> lx[k + 1],
     dx |-> dx[k], Lx |-> Lx[k], Tx |-> Tx[k], ex |-> ex[k]]

Row(k) ==
    [age |-> ages[k], qx |-> qx[k], px |-> RSub(One, qx[k]), lx |-> lx[k],
     dx |-> dx[k], Lx |-> Lx[k], Tx |-> Tx[k], ex |-> ex[k]]

\* lines 59-70: the DataFrame needs columns of one length; lx[:n] drops lx[n]
LtFrame ==
    /\ pc = "lt_frame"
    /\ IF Len0(qx) # n
       THEN /\ Raise("ValueError")
            /\ UNCHANGED life_table
       ELSE /\ life_table' = [k \in 0..(n - 1) |-> Row(k)]
            /\ pc' = IF caller = "compute_life_table" THEN "done" ELSE "md_graduate"
            /\ UNCHANGED error
    /\ UNCHANGED <<caller, ages, qx, radix, i, lx, dx, Lx, Tx, ex, mdVars, restVars>>

LifeTableNext ==
    \/ LtAlloc
    \/ LtLxLoop
    \/ LtLLoop
    \/ LtTxLast
    \/ LtTxLoop
    \/ LtExLoop
    \/ LtFrame

NoLifeTable ==
    /\ i = 0
    /\ lx = <<>> /\ dx = <<>> /\ Lx = <<>> /\ Tx = <<>> /\ ex = <<>>
    /\ life_table = <<>>

NoMortality ==
    /\ csv_qx = <<>>
    /\ qx_raw = <<>>
    /\ kpis = <<>>
    /\ graduated = <<>>
    /\ fitted_models = <<>>
    /\ md_env = <<>>

NoSurvival ==
    /\ csv = <<>>
    /\ df = <<>>
    /\ copies = 0
    /\ strata_col = "None" /\ time_col = "None" /\ event_col = "None"
    /\ sv_env = <<>>
    /\ meta = <<>> /\ overall_km = <<>> /\ sv_life_table = <<>> /\ nelson_aalen = <<>>
    /\ strata_result = <<>>
    /\ sv_result = <<>>

NoJobs ==
    /\ job_files = <<>> /\ result_files = <<>>
    /\ job_kind = <<>> /\ job_arg = <<>> /\ job_pc = <<>> /\ job_exc = <<>>

NoRegistry ==
    /\ registry_file = <<>>
    /\ reg_op = <<>> /\ reg_pc = <<>> /\ reg_local = <<>>

NoService == NoJobs /\ NoRegistry

NoMovingAverage ==
    /\ ma_window_size = 0
    /\ ma_weighted = FALSE
    /\ ma_weights = <<>>

NoGraduation ==
    /\ order = 0
    /\ lambda_param = Zero
    /\ fit_outcome = ""
    /\ spline_outcome = <<>>
    /\ ret = <<>>
    /\ NoMovingAverage

NoCox ==
    /\ cox_rows = 0 /\ cox_covariates = 0 /\ cox_complete = 0
    /\ cox_fault = "none"
    /\ cox_fit_attempted = FALSE
    /\ cox_result = <<>>

NoChainLadder ==
    /\ has_origin = FALSE
    /\ n_dev_cols = 0
    /\ triangle = <<>>
    /\ dev_factors = <<>>
    /\ ultimate = <<>>
    /\ latest_diagonal = <<>>
    /\ result = <<>>

InitLifeTable ==
    /\ caller = "compute_life_table"
    /\ pc = "lt_alloc"
    /\ error = ""
    /\ \E na \in 0..MaxAges, a0 \in FirstAges : ages = AgesFrom(a0, na)
    /\ \E nq \in 0..MaxAges : qx \in Arrays(nq, QxValues)
    /\ radix \in Radixes
    /\ NoLifeTable
    /\ NoMortality
    /\ NoChainLadder
    /\ NoCox
    /\ NoGraduation
    /\ NoService
    /\ NoSurvival

SpecLifeTable == InitLifeTable /\ [][LifeTableNext]_vars

----------------------------------------------------------------------------
(* fit_gompertz(ages, qx) and fit_makeham(ages, qx).  The optimizer is      *)
(* scipy's curve_fit: the model keeps when it must throw, lets it otherwise  *)
(* converge or give up, and stands for the floats it computes by "float".    *)

GompertzParams == 2

MakehamParams == 3

\* rates as they can reach the routines: the unit interval and a rate above it
RawQxValues == QxValues \cup {R(2)}

\* line 108: 1 - qx + 1e-10 is positive, so that its logarithm is a number
MuDefined(q) == \A k \in DOMAIN q : RLe(q[k], One)

FitOutcomes == {"converged", "RuntimeError"}

\* curve_fit(f, ages, mu_x, p0, maxfev): "" when it returns the parameters,
\* the exception otherwise.  It rejects a mu_x that is not finite and fewer
\* data points than parameters.
CurveFit(a, q, nparams, out) ==
    IF ~MuDefined(q) THEN "ValueError"
    ELSE IF Len0(q) < nparams THEN "TypeError"
    ELSE IF out = "converged" THEN "" ELSE out

Floats(len) == [k \in 0..(len - 1) |-> "float"]

FitSuccess(model, params, a) ==
    [model |-> model, parameters |-> params, fitted_qx |-> Floats(Len0(a)),
     fitted_mu |-> Floats(Len0(a)), r_squared |-> "float", rmse |-> "float",
     formula |-> model, success |-> TRUE]

FitFailure_keepsParams(model, e) ==
    [model |-> model, parameters |-> [alpha |-> "float"], fitted_qx |-> <<>>,
     error |-> e, success |-> FALSE]

FitFailure(model, e) ==
    [model |-> model, parameters |-> <<>>, fitted_qx |-> <<>>, error |-> e,
     success |-> FALSE]

fit_gompertz(a, q, out) ==
    LET e == CurveFit(a, q, GompertzParams, out)
    IN  IF e = ""
        THEN FitSuccess("gompertz", [alpha |-> "float", beta |-> "float"], a)
        ELSE FitFailure("gompertz", e)

fit_makeham(a, q, out) ==
    LET e == CurveFit(a, q, MakehamParams, out)
    IN  IF e = ""
        THEN FitSuccess("makeham", [A |-> "float", B |-> "float", C |-> "float"], a)
        ELSE FitFailure("makeham", e)

FitGompertz ==
    /\ pc = "fit_call"
    /\ caller = "fit_gompertz"
    /\ ret' = fit_gompertz(ages, qx, fit_outcome)
    /\ pc' = "done"
    /\ UNCHANGED <<caller, error, nonGrVars, order, lambda_param,
                   fit_outcome, spline_outcome, maVars, ioVars>>

FitMakeham ==
    /\ pc = "fit_call"
    /\ caller = "fit_makeham"
    /\ ret' = fit_makeham(ages, qx, fit_outcome)
    /\ pc' = "done"
    /\ UNCHANGED <<caller, error, nonGrVars, order, lambda_param,
                   fit_outcome, spline_outcome, maVars, ioVars>>

FitNext ==
    \/ FitGompertz
    \/ FitMakeham

InitFit ==
    /\ pc = "fit_call"
    /\ caller \in {"fit_gompertz", "fit_makeham"}
    /\ error = ""
    /\ \E na \in 0..MaxAges, a0 \in FirstAges :
          /\ ages = AgesFrom(a0, na)
          /\ qx \in Arrays(na, RawQxValues)
    /\ radix = 0
    /\ fit_outcome \in FitOutcomes
    /\ order = 0 /\ lambda_param = Zero /\ spline_outcome = <<>> /\ ret = <<>>
    /\ NoMovingAverage
    /\ NoService
    /\ NoLifeTable
    /\ NoMortality
    /\ NoChainLadder
    /\ NoCox
    /\ NoSurvival

SpecFit == InitFit /\ [][FitNext]_vars

----------------------------------------------------------------------------
(* penalized_spline_smooth(ages, qx, smoothing_param).  The spline is       *)
(* scipy's UnivariateSpline: the model keeps when it must throw and lets it  *)
(* otherwise return a curve that leaves the data by an overshoot.            *)

SplineDegree == 3

MaxSplineAges == 4

\* by how much the curve leaves the data at the even and at the odd positions:
\* it interpolates, or it oscillates about the data one way or the other
Overshoots == {<<Zero, Zero>>, <<<<-1, 4>>, <<1, 4>>>>, <<<<1, 4>>, <<-1, 4>>>>}

\* np.clip(x, 0, 1)
Clip(x) ==
    IF x = NaN THEN NaN
    ELSE IF RLt(x, Zero) THEN Zero
    ELSE IF RLt(One, x) THEN One
    ELSE x

ClipAll_none(a) == a

ClipAll(a) == [k \in DOMAIN a |-> Clip(a[k])]

\* spline(ages): the data moved by one overshoot at the even and another at
\* the odd positions
SplineCurve(q, o) ==
    [k \in DOMAIN q |-> RAdd(q[k], IF k % 2 = 0 THEN o[1] ELSE o[2])]

\* what UnivariateSpline(ages, qx, s) can do: it needs more points than the
\* degree of the spline
SplineOutcomes(a, q) ==
    {[error |-> "ValueError", values |-> <<>>]} \cup
    (IF Len0(a) > SplineDegree /\ Len0(a) = Len0(q)
     THEN {[error |-> "", values |-> SplineCurve(q, o)] : o \in Overshoots}
     ELSE {})

penalized_spline_smooth_strict(a, q, out) == ClipAll(out.values)

\* lines 318-331
penalized_spline_smooth(a, q, out) ==
    IF out.error = "" THEN ClipAll(out.values) ELSE q

SplineCall ==
    /\ pc = "spline_call"
    /\ ret' = penalized_spline_smooth(ages, qx, spline_outcome)
    /\ pc' = "done"
    /\ UNCHANGED <<caller, error, nonGrVars, order, lambda_param,
                   fit_outcome, spline_outcome, maVars, ioVars>>

SplineNext == SplineCall

InitSpline ==
    /\ pc = "spline_call"
    /\ caller = "penalized_spline_smooth"
    /\ error = ""
    /\ \E na \in 0..MaxSplineAges, a0 \in FirstAges :
          /\ ages = AgesFrom(a0, na)
          /\ qx \in Arrays(na, RawQxValues)
    /\ radix = 0
    /\ spline_outcome \in SplineOutcomes(ages, qx)
    /\ order = 0 /\ lambda_param = Zero /\ fit_outcome = "" /\ ret = <<>>
    /\ NoMovingAverage
    /\ NoService
    /\ NoLifeTable
    /\ NoMortality
    /\ NoChainLadder
    /\ NoCox
    /\ NoSurvival

SpecSpline == InitSpline /\ [][SplineNext]_vars

----------------------------------------------------------------------------
(* whittaker_henderson(qx, order, lambda_param).  Matrices are arrays of    *)
(* rows.  The regularisation 1e-10 * I of line 248 amounts to dividing both  *)
(* lambda_param and qx by 1 + 1e-10; that relative change of 1e-10 is below  *)
(* what the rationals of the model resolve, and the term is taken as 0.      *)

MaxWhAges == 4

Orders == 0..3

Lambdas == {Zero, One, R(4)}

Regularization == Zero

\* an np.ndarray holds its elements, computed once
Stored(a) == a @@ <<>>

StoredMatrix(A) == Stored([r \in DOMAIN A |-> Stored(A[r])])

\* np.eye(m)
Eye(m) == [r \in 0..(m - 1) |-> [c \in 0..(m - 1) |-> IF r = c THEN 1 ELSE 0]]

\* np.diff(D, axis=0): the differences of consecutive rows
DiffRows(D) ==
    StoredMatrix([r \in 0..(Len0(D) - 2) |-> [c \in DOMAIN D[r] |-> D[r + 1][c] - D[r][c]]])

RECURSIVE DiffMatrix(_, _)
\* lines 238-240: np.eye(m) differenced k times
DiffMatrix(m, k) == IF k <= 0 THEN Eye(m) ELSE DiffRows(DiffMatrix(m, k - 1))

RECURSIVE ColumnDot(_, _, _, _)
\* the sum of D[j][r] * D[j][c] over the rows j < k
ColumnDot(D, r, c, k) ==
    IF k = 0 THEN 0 ELSE ColumnDot(D, r, c, k - 1) + D[k - 1][r] * D[k - 1][c]

\* D.T @ D, an m by m matrix
Gram(D, m) ==
    StoredMatrix([r \in 0..(m - 1) |-> [c \in 0..(m - 1) |-> ColumnDot(D, r, c, Len0(D))]])

Penalty_unweighted(lam, G) == R(G)

\* line 243
Penalty(lam, G) == RMul(lam, R(G))

\* lines 243-248: A = I + penalty_matrix + 1e-10 * np.eye(n)
SystemMatrix(m, k, lam) ==
    LET G == Gram(DiffMatrix(m, k), m)
        I == Eye(m)
    IN  StoredMatrix([r \in DOMAIN G |-> [c \in DOMAIN G[r] |->
            RAdd(RAdd(R(I[r][c]), Penalty(lam, G[r][c])), RMul(Regularization, R(I[r][c])))]])

RECURSIVE RowDot(_, _, _)
\* the sum of row[c] * x[c - 1] over 1 <= c <= k
RowDot(row, x, k) ==
    IF k = 0 THEN Zero ELSE RAdd(RowDot(row, x, k - 1), RMul(row[k], x[k - 1]))

RECURSIVE Solve(_, _)
\* np.linalg.solve(A, b) by Gaussian elimination; A is positive definite for
\* lambda_param >= 0, so no pivot is zero
\* (back substitution: x1 is stored before x0 is computed from it)
Solve(A, b) ==
    LET m == Len0(A)
    IN  IF m = 0 THEN <<>>
        ELSE LET p == A[0][0]
                 A1 == StoredMatrix([r \in 0..(m - 2) |-> [c \in 0..(m - 2) |->
                           RSub(A[r + 1][c + 1],
                                RMul(RDiv(A[r + 1][0], p), A[0][c + 1]))]])
                 b1 == Stored([r \in 0..(m - 2) |->
                           RSub(b[r + 1], RMul(RDiv(A[r + 1][0], p), b[0]))])
                 x1 == Solve(A1, b1)
                 x0 == RDiv(RSub(b[0], RowDot(A[0], x1, m - 1)), p)
             IN  Stored([k \in 1..(m - 1) |-> x1[k - 1]]) @@ (0 :> x0)

\* lines 219-256
whittaker_henderson(q, k, lam) ==
    ClipAll(Solve(SystemMatrix(Len0(q), k, lam), q))

WhCall ==
    /\ pc = "wh_call"
    /\ ret' = whittaker_henderson(qx, order, lambda_param)
    /\ pc' = "done"
    /\ UNCHANGED <<caller, error, nonGrVars, order, lambda_param,
                   fit_outcome, spline_outcome, maVars, ioVars>>

WhittakerNext == WhCall

InitWhittaker ==
    /\ pc = "wh_call"
    /\ caller = "whittaker_henderson"
    /\ error = ""
    /\ ages = <<>>
    /\ \E len \in 0..MaxWhAges : qx \in Arrays(len, QxValues)
    /\ radix = 0
    /\ order \in Orders
    /\ lambda_param \in Lambdas
    /\ fit_outcome = "" /\ spline_outcome = <<>> /\ ret = <<>>
    /\ NoMovingAverage
    /\ NoService
    /\ NoLifeTable
    /\ NoMortality
    /\ NoChainLadder
    /\ NoCox
    /\ NoSurvival

SpecWhittaker == InitWhittaker /\ [][WhittakerNext]_vars

----------------------------------------------------------------------------
(* moving_average_smooth(qx, window_size, weighted) *)

\* lines 271-272: an even window is widened by one
OddWindow(w) == IF w % 2 = 0 THEN w + 1 ELSE w

\* lines 280 and 296: the triangular weight of position j in a window of len
\* positions, before normalisation
Triangular(j, len) == 1 + (len \div 2) - Abs(j - (len \div 2))

RECURSIVE TriangularSum(_, _)
\* weights.sum() over the positions below k
TriangularSum(k, len) ==
    IF k = 0 THEN 0 ELSE TriangularSum(k - 1, len) + Triangular(k - 1, len)

\* the weights left as they are before the division by their sum
Weight_unnormalised(j, len, weighted) ==
    IF weighted THEN R(Triangular(j, len)) ELSE One

\* lines 280-284 and 296-299: the normalised weight of position j
Weight(j, len, weighted) ==
    IF weighted
    THEN RDiv(R(Triangular(j, len)), R(TriangularSum(len, len)))
    ELSE RDiv(One, R(len))

RECURSIVE WindowSum(_, _, _, _, _)
\* np.sum(qx[start:start+len] * w) over the positions below k
WindowSum(q, start, len, weighted, k) ==
    IF k = 0 THEN Zero
    ELSE RAdd(WindowSum(q, start, len, weighted, k - 1),
              RMul(q[start + k - 1], Weight(k - 1, len, weighted)))

Max2(a, b) == IF a >= b THEN a ELSE b

Min2(a, b) == IF a <= b THEN a ELSE b

\* lines 286-301: the smoothed value at position k
SmoothAt(q, k, w, weighted) ==
    LET len == Len0(q)
        half_window == w \div 2
        start == Max2(0, k - half_window)
        end == Min2(len, k + half_window + 1)
    IN  IF k < half_window \/ k >= len - half_window
        THEN WindowSum(q, start, end - start, weighted, end - start)
        ELSE WindowSum(q, start, w, weighted, end - start)

\* lines 259-303
moving_average_smooth(q, window_size, weighted) ==
    Stored([k \in DOMAIN q |-> SmoothAt(q, k, OddWindow(window_size), weighted)])

\* lines 288-301: the weights that multiply qx[start:end] at position k, w of
\* lines 296-299 at a boundary position and weights of lines 280-284 elsewhere
WeightsAt(len, k, w, weighted) ==
    LET half_window == w \div 2
        start == Max2(0, k - half_window)
        end == Min2(len, k + half_window + 1)
        window_len == IF k < half_window \/ k >= len - half_window THEN end - start ELSE w
    IN  Stored([j \in 0..(end - start - 1) |-> Weight(j, window_len, weighted)])

MaxMaAges == 5

MaxWindow == 5

\* the whole call
MaCall ==
    /\ pc = "ma_call"
    /\ ret' = moving_average_smooth(qx, ma_window_size, ma_weighted)
    /\ ma_weights' = [k \in DOMAIN qx |->
                         WeightsAt(Len0(qx), k, OddWindow(ma_window_size), ma_weighted)]
    /\ pc' = "done"
    /\ UNCHANGED <<caller, error, nonGrVars, order, lambda_param, fit_outcome,
                   spline_outcome, ma_window_size, ma_weighted, ioVars>>

MovingAverageNext == MaCall

InitMovingAverage ==
    /\ pc = "ma_call"
    /\ caller = "moving_average_smooth"
    /\ error = ""
    /\ ages = <<>>
    /\ \E len \in 0..MaxMaAges : qx \in Arrays(len, {Zero, <<1, 2>>, One})
    /\ radix = 0
    /\ ma_window_size \in 0..MaxWindow
    /\ ma_weighted \in BOOLEAN
    /\ ma_weights = <<>>
    /\ NoService
    /\ order = 0 /\ lambda_param = Zero
    /\ fit_outcome = "" /\ spline_outcome = <<>> /\ ret = <<>>
    /\ NoLifeTable
    /\ NoMortality
    /\ NoChainLadder
    /\ NoCox
    /\ NoSurvival

SpecMovingAverage == InitMovingAverage /\ [][MovingAverageNext]_vars

----------------------------------------------------------------------------
(* compute_mortality_dashboard(csv_path), from the extracted columns on *)

DefaultRadix == 100000

\* the qx column is a base series of probabilities times the unit it was
\* recorded in (1: probabilities, 100: percentages, 1000: per mille, ...)
Scales == {1, 100, 400, 1000, 4000}

Scaled(s, base) == [k \in DOMAIN base |-> RMul(R(s), base[k])]

RECURSIVE MaxFrom(_, _)
\* the largest of a[k..]
MaxFrom(a, k) ==
    IF k + 1 \notin DOMAIN a THEN a[k]
    ELSE LET m == MaxFrom(a, k + 1) IN IF RLe(m, a[k]) THEN a[k] ELSE m

ArrayMax(a) == MaxFrom(a, 0)

\* every rescaling taken for a percentage
Rescale_percent(q, mx) == IF RLt(One, mx) THEN RDiv(q, R(100)) ELSE q

\* lines 379-384
Rescale(q, mx) ==
    IF RLt(One, mx)
    THEN IF RLt(R(100), mx) THEN RDiv(q, R(1000)) ELSE RDiv(q, R(100))
    ELSE q

\* lines 374-387: rescale qx_raw, then call compute_life_table(ages, qx_raw);
\* max() of an empty column raises ValueError
MdNormalize ==
    /\ pc = "md_normalize"
    /\ IF Len0(csv_qx) = 0
       THEN /\ Raise("ValueError")
            /\ UNCHANGED <<qx_raw, qx, radix>>
       ELSE /\ qx_raw' = [k \in DOMAIN csv_qx |-> Rescale(csv_qx[k], ArrayMax(csv_qx))]
            /\ qx' = qx_raw'
            /\ radix' = DefaultRadix
            /\ pc' = "lt_alloc"
            /\ UNCHANGED error
    /\ UNCHANGED <<caller, ages, i, lx, dx, Lx, Tx, ex, life_table, csv_qx, kpis, graduated,
                   fitted_models, md_env, restVars>>

DashboardOrder == 3

DashboardLambda == R(100)

DashboardWindow == 5

\* lines 389-396: the graduation passes and the curve fits; what scipy does in
\* the spline and in the two fits is the environment's choice
MdGraduate ==
    /\ pc = "md_graduate"
    /\ LET qx_whittaker == whittaker_henderson(qx_raw, DashboardOrder, DashboardLambda)
           qx_moving_avg == moving_average_smooth(qx_raw, DashboardWindow, TRUE)
       IN  \E so \in SplineOutcomes(ages, qx_raw), go \in FitOutcomes, mo \in FitOutcomes :
              /\ md_env' = [spline |-> so, gompertz |-> go, makeham |-> mo]
              /\ graduated' =
                    [whittaker_henderson |-> qx_whittaker,
                     moving_average |-> qx_moving_avg,
                     penalized_spline |-> penalized_spline_smooth(ages, qx_raw, so)]
              /\ fitted_models' = [gompertz |-> fit_gompertz(ages, qx_raw, go),
                                   makeham |-> fit_makeham(ages, qx_raw, mo)]
    /\ pc' = "md_kpis"
    /\ UNCHANGED <<caller, error, ltVars, csv_qx, qx_raw, kpis, restVars>>

RECURSIVE ArgMinFrom(_, _)
\* np.argmin of a[k..]: the first index of the smallest value
ArgMinFrom(a, k) ==
    IF k + 1 \notin DOMAIN a THEN k
    ELSE LET m == ArgMinFrom(a, k + 1) IN IF RLe(a[k], a[m]) THEN k ELSE m

RECURSIVE FirstAtOrBelow(_, _, _)
\* the first index from k whose value is at most h (the last index if none)
FirstAtOrBelow(a, h, k) ==
    IF k + 1 \notin DOMAIN a \/ RLe(a[k], h) THEN k ELSE FirstAtOrBelow(a, h, k + 1)

\* the first row at or below half the radix taken for the median row
MedianIdx_crossing(lxcol, r) == FirstAtOrBelow(lxcol, RDiv(r, R(2)), 0)

\* line 403
MedianIdx(lxcol, r) ==
    ArgMinFrom([k \in DOMAIN lxcol |-> RAbs(RSub(lxcol[k], RDiv(r, R(2))))], 0)

RECURSIVE SumFrom(_, _)
SumFrom(a, k) == IF k \notin DOMAIN a THEN Zero ELSE RAdd(a[k], SumFrom(a, k + 1))

LxColumn == [k \in DOMAIN life_table |-> life_table[k].lx]

DxColumn == [k \in DOMAIN life_table |-> life_table[k].dx]

\* lines 398-452 (the table has a row here: an empty column raised earlier)
MdKpis ==
    /\ pc = "md_kpis"
    /\ kpis' = [life_expectancy_at_birth |-> life_table[0].ex,
                median_age_at_death |->
                    life_table[MedianIdx(LxColumn, life_table[0].lx)].age,
                total_population |-> life_table[0].lx,
                total_deaths |-> SumFrom(DxColumn, 0)]
    /\ pc' = "done"
    /\ UNCHANGED <<caller, error, ltVars, csv_qx, qx_raw, graduated, fitted_models, md_env,
                   restVars>>

MortalityNext ==
    \/ MdNormalize
    \/ LifeTableNext
    \/ MdGraduate
    \/ MdKpis

InitMortality ==
    /\ caller = "compute_mortality_dashboard"
    /\ pc = "md_normalize"
    /\ error = ""
    /\ \E na \in 0..MaxAges, a0 \in FirstAges :
          /\ ages = AgesFrom(a0, na)
          /\ \E s \in Scales, base \in Arrays(na, QxValues) : csv_qx = Scaled(s, base)
    /\ qx_raw = <<>>
    /\ kpis = <<>>
    /\ graduated = <<>>
    /\ fitted_models = <<>>
    /\ md_env = <<>>
    /\ qx = <<>>
    /\ radix = DefaultRadix
    /\ NoLifeTable
    /\ NoChainLadder
    /\ NoCox
    /\ NoGraduation
    /\ NoService
    /\ NoSurvival

SpecMortality == InitMortality /\ [][MortalityNext]_vars

----------------------------------------------------------------------------
(* run_chain_ladder_from_csv(csv_path), from the parsed CSV on *)

n_origin == Len0(triangle)

OriginError == "ValueError: CSV must contain 'origin' column"

DevPeriodsError == "ValueError: Triangle must have at least 2 development periods"

\* cumulative amounts of a row: origin o of the synthetic triangle
\* o * (d + 1) * 100 for o = 0, 1, 2, or a flat row of 300
RowKinds == {"origin0", "origin1", "origin2", "flat"}

Amount(kind, d) ==
    CASE kind = "origin0" -> R(0)
      [] kind = "origin1" -> R((d + 1) * 100)
      [] kind = "origin2" -> R(2 * (d + 1) * 100)
      [] kind = "flat" -> R(300)

\* cells present: the first len cells, or those with the last but one missing
Masks(nd) ==
    {0..(len - 1) : len \in 0..nd} \cup {(0..(len - 1)) \ {len - 2} : len \in 2..nd}

TriangleRows(nd) ==
    {[d \in 0..(nd - 1) |-> IF d \in m THEN Amount(kind, d) ELSE NaN] :
        kind \in RowKinds, m \in Masks(nd)}

\* a threshold of one development period
TooFewDevPeriods_one(nd) == nd < 1

\* line 30
TooFewDevPeriods(nd) == nd < 2

\* lines 22-36
ClValidate ==
    /\ pc = "cl_validate"
    /\ IF ~has_origin
       THEN Raise(OriginError)
       ELSE IF TooFewDevPeriods(n_dev_cols)
            THEN Raise(DevPeriodsError)
            ELSE /\ pc' = "cl_factors"
                 /\ UNCHANGED error
    /\ UNCHANGED <<caller, nonClVars, clVars>>

\* line 77: rows with both cells present
ValidRows(tri, c) == {r \in DOMAIN tri : IsFinite(tri[r][c]) /\ IsFinite(tri[r][c + 1])}

RECURSIVE SumColumn(_, _, _, _)
\* lines 84-85: the sum of column c over the rows of valid, from row r on
SumColumn(tri, c, valid, r) ==
    IF r \notin DOMAIN tri THEN Zero
    ELSE IF r \in valid
         THEN RAdd(tri[r][c], SumColumn(tri, c, valid, r + 1))
         ELSE SumColumn(tri, c, valid, r + 1)

RECURSIVE SumRatios(_, _, _, _)
SumRatios(tri, c, valid, r) ==
    IF r \notin DOMAIN tri THEN Zero
    ELSE IF r \in valid /\ tri[r][c] # Zero
         THEN RAdd(RDiv(tri[r][c + 1], tri[r][c]), SumRatios(tri, c, valid, r + 1))
         ELSE SumRatios(tri, c, valid, r + 1)

\* the simple mean of the per-row ratios
DevFactor_mean(tri, c) ==
    LET valid == {r \in ValidRows(tri, c) : tri[r][c] # Zero}
    IN  IF valid = {} THEN One
        ELSE RDiv(SumRatios(tri, c, valid, 0), R(Cardinality(valid)))

\* lines 73-91
DevFactor(tri, c) ==
    LET valid == ValidRows(tri, c)
        sum_current == SumColumn(tri, c, valid, 0)
        sum_next == SumColumn(tri, c + 1, valid, 0)
    IN  IF valid = {} THEN One
        ELSE IF sum_current = Zero THEN One
        ELSE RDiv(sum_next, sum_current)

\* lines 69-93
compute_development_factors(tri, nd) == [c \in 0..(nd - 2) |-> DevFactor(tri, c)]

\* line 39
ClFactors ==
    /\ pc = "cl_factors"
    /\ dev_factors' = compute_development_factors(triangle, n_dev_cols)
    /\ pc' = "cl_ultimate"
    /\ UNCHANGED <<caller, error, nonClVars, has_origin, n_dev_cols, triangle,
                   ultimate, latest_diagonal, result>>

RECURSIVE LatestAge(_, _)
\* lines 115-119: the last populated cell at or before age (-1 if none)
LatestAge(row, age) ==
    IF age < 0 THEN -1
    ELSE IF IsFinite(row[age]) THEN age ELSE LatestAge(row, age - 1)

RECURSIVE Project(_, _, _, _)
\* lines 126-128: projected *= dev_factors[age] for age = from .. nd - 2
Project(projected, factors, age, nd) ==
    IF age >= nd - 1 THEN projected
    ELSE Project(RMul(projected, factors[age]), factors, age + 1, nd)

\* the latest value carried to ultimate with no factor applied
UltimateOf_unprojected(row, factors, nd) ==
    LET latest_age == LatestAge(row, nd - 1)
    IN  IF latest_age = -1 THEN Zero ELSE row[latest_age]

\* lines 110-130, one origin row
UltimateOf(row, factors, nd) ==
    LET latest_age == LatestAge(row, nd - 1)
    IN  IF latest_age = -1 THEN Zero
        ELSE Project(row[latest_age], factors, latest_age, nd)

\* lines 107-132
project_ultimate(tri, factors, nd) ==
    [r \in DOMAIN tri |-> UltimateOf(tri[r], factors, nd)]

\* line 42
ClUltimate ==
    /\ pc = "cl_ultimate"
    /\ ultimate' = project_ultimate(triangle, dev_factors, n_dev_cols)
    /\ pc' = "cl_diagonal"
    /\ UNCHANGED <<caller, error, nonClVars, has_origin, n_dev_cols, triangle,
                   dev_factors, latest_diagonal, result>>

\* the default of lines 154-155 for an all-missing row left out
LatestOf_nodefault(row, nd) ==
    LET latest_age == LatestAge(row, nd - 1)
    IN  IF latest_age = -1 THEN NaN ELSE row[latest_age]

\* lines 147-155, one origin row
LatestOf(row, nd) ==
    LET latest_age == LatestAge(row, nd - 1)
    IN  IF latest_age = -1 THEN Zero ELSE row[latest_age]

\* lines 145-157
get_latest_diagonal(tri, nd) == [r \in DOMAIN tri |-> LatestOf(tri[r], nd)]

\* line 46
ClDiagonal ==
    /\ pc = "cl_diagonal"
    /\ latest_diagonal' = get_latest_diagonal(triangle, n_dev_cols)
    /\ pc' = "cl_return"
    /\ UNCHANGED <<caller, error, nonClVars, has_origin, n_dev_cols, triangle,
                   dev_factors, ultimate, result>>

\* lines 47-54
ClReturn ==
    /\ pc = "cl_return"
    /\ result' = [development_factors |-> dev_factors,
                  n_origin |-> n_origin,
                  n_dev |-> n_dev_cols,
                  reserve_estimate |->
                      SumFrom([r \in DOMAIN ultimate |->
                                  RSub(ultimate[r], latest_diagonal[r])], 0)]
    /\ pc' = "done"
    /\ UNCHANGED <<caller, error, nonClVars, has_origin, n_dev_cols, triangle,
                   dev_factors, ultimate, latest_diagonal>>

ChainLadderNext ==
    \/ ClValidate
    \/ ClFactors
    \/ ClUltimate
    \/ ClDiagonal
    \/ ClReturn

InitChainLadder ==
    /\ caller = "run_chain_ladder_from_csv"
    /\ pc = "cl_validate"
    /\ error = ""
    /\ has_origin \in BOOLEAN
    /\ n_dev_cols \in 0..MaxDev
    /\ \E no \in 0..MaxOrigin : triangle \in Arrays(no, TriangleRows(n_dev_cols))
    /\ dev_factors = <<>>
    /\ ultimate = <<>>
    /\ latest_diagonal = <<>>
    /\ result = <<>>
    /\ ages = <<>> /\ qx = <<>> /\ radix = 0
    /\ NoLifeTable
    /\ NoMortality
    /\ NoCox
    /\ NoGraduation
    /\ NoService
    /\ NoSurvival

SpecChainLadder == InitChainLadder /\ [][ChainLadderNext]_vars

----------------------------------------------------------------------------
(* compute_cox_model(df), from the data frame's shape on: the number of rows, *)
(* of numeric covariates and of rows without a missing value.  The fit      *)
(* itself is lifelines' (CoxPHFitter): the model keeps that it was called,   *)
(* and lets any step of the try block throw.                                 *)

MinCoxRows == 10

MaxCovariates == 2

CoxFaults == {"none", "prepare", "fit", "summary"}

TryStages_fit == {"fit"}

\* lines 252-281: the steps the try block covers
TryStages == {"prepare", "fit", "summary"}

NoneValue == "None"

EmptyCoxResult == [concordance |-> NoneValue, summary |-> <<>>]

FailedCoxResult(e) == [concordance |-> NoneValue, summary |-> <<>>, error |-> e]

CoxError(stage) == "Exception in " \o stage

TooFewRows(k) == k < MinCoxRows

TooFewComplete_unchecked(k) == FALSE

TooFewComplete(k) == k < MinCoxRows

\* where compute_cox_model returns to
CxReturnPc == IF caller = "compute_cox_model" THEN "done" ELSE "sv_return"

CxReturn(r) ==
    /\ cox_result' = r
    /\ pc' = CxReturnPc
    /\ UNCHANGED error

\* an exception thrown at a step: caught by the except clause when the step is
\* inside the try block, propagated otherwise
CxThrow(stage) ==
    IF stage \in TryStages
    THEN CxReturn(FailedCoxResult(CoxError(stage)))
    ELSE /\ Raise(CoxError(stage))
         /\ UNCHANGED cox_result

\* lines 241-250
CxGuard ==
    /\ pc = "cx_guard"
    /\ IF cox_covariates = 0 \/ TooFewRows(cox_rows)
       THEN CxReturn(EmptyCoxResult)
       ELSE /\ pc' = "cx_prepare"
            /\ UNCHANGED <<error, cox_result>>
    /\ UNCHANGED <<caller, nonCxVars, cox_rows, cox_covariates,
                   cox_complete, cox_fault, cox_fit_attempted>>

\* lines 254-257
CxPrepare ==
    /\ pc = "cx_prepare"
    /\ IF cox_fault = "prepare"
       THEN CxThrow("prepare")
       ELSE IF TooFewComplete(cox_complete)
            THEN CxReturn(EmptyCoxResult)
            ELSE /\ pc' = "cx_fit"
                 /\ UNCHANGED <<error, cox_result>>
    /\ UNCHANGED <<caller, nonCxVars, cox_rows, cox_covariates,
                   cox_complete, cox_fault, cox_fit_attempted>>

\* lines 259-260
CxFit ==
    /\ pc = "cx_fit"
    /\ cox_fit_attempted' = TRUE
    /\ IF cox_fault = "fit"
       THEN CxThrow("fit")
       ELSE /\ pc' = "cx_summary"
            /\ UNCHANGED <<error, cox_result>>
    /\ UNCHANGED <<caller, nonCxVars, cox_rows, cox_covariates,
                   cox_complete, cox_fault>>

\* lines 263-274: one row per covariate
CoxSummary == [k \in 1..cox_covariates |-> [covariate |-> k, coef |-> "float"]]

\* lines 262-279
CxSummary ==
    /\ pc = "cx_summary"
    /\ IF cox_fault = "summary"
       THEN CxThrow("summary")
       ELSE CxReturn([concordance |-> "float", summary |-> CoxSummary])
    /\ UNCHANGED <<caller, nonCxVars, cox_rows, cox_covariates,
                   cox_complete, cox_fault, cox_fit_attempted>>

CoxNext ==
    \/ CxGuard
    \/ CxPrepare
    \/ CxFit
    \/ CxSummary

InitCox ==
    /\ pc = "cx_guard"
    /\ caller = "compute_cox_model"
    /\ error = ""
    /\ cox_rows \in 0..MaxCoxRows
    /\ cox_covariates \in 0..MaxCovariates
    /\ cox_complete \in 0..cox_rows
    /\ cox_fault \in CoxFaults
    /\ cox_fit_attempted = FALSE
    /\ cox_result = <<>>
    /\ ages = <<>> /\ qx = <<>> /\ radix = 0
    /\ NoLifeTable
    /\ NoMortality
    /\ NoChainLadder
    /\ NoGraduation
    /\ NoService
    /\ NoSurvival

SpecCox == InitCox /\ [][CoxNext]_vars

----------------------------------------------------------------------------
(* compute_survival_dashboard(csv_path, strata_col), from the parsed CSV on. *)
(* The data frame is a record: cols, the column names in file order; data,   *)
(* the sequence of rows, each a sequence of cells; numeric, the names of the *)
(* columns pandas gave a numeric dtype.  A cell is <<"num", value>>, the      *)
(* missing value <<"nan", NaN>>, or a text that is no number <<"str", NaN>>.  *)
(* The CSV holds each of its lines `copies` times, so that a small frame     *)
(* stands for one with enough rows for the Cox model.                        *)

MaxRows == 2

Num(x) == <<"num", R(x)>>

Missing == <<"nan", NaN>>

Text == <<"str", NaN>>

Copies == {1, 5}

time_candidates ==
    <<"time", "duration", "TIME", "DURATION", "Time", "Duration", "survival_time",
      "follow_up">>

event_candidates ==
    <<"event", "status", "EVENT", "STATUS", "Event", "Status", "DEATH", "death", "Death",
      "censored">>

TimeColumnError == "ValueError: CSV must contain a time column"

EventColumnError == "ValueError: CSV must contain an event/status column"

EmptyError == "ValueError: No valid data rows after cleaning"

KeyError == "KeyError: 'time'"

ColumnSet(t) == {t.cols[c] : c \in 1..Len(t.cols)}

ColIndex(t, name) == CHOOSE c \in 1..Len(t.cols) : t.cols[c] = name

MinOf(S) == CHOOSE x \in S : \A y \in S : x <= y

\* pd.read_csv: a column is numeric when it has a row and no cell is a text
InferNumeric(cols, data) ==
    {cols[c] : c \in {k \in 1..Len(cols) :
                        Len(data) > 0 /\ \A r \in 1..Len(data) : data[r][k][1] # "str"}}

FirstCandidate_fileOrder(cands, t) ==
    LET hits == {c \in 1..Len(t.cols) : \E k \in 1..Len(cands) : cands[k] = t.cols[c]}
    IN  IF hits = {} THEN NoneValue ELSE t.cols[MinOf(hits)]

\* lines 29-32 and 46-49: the first name of the list that is a column
FirstCandidate(cands, t) ==
    LET hits == {k \in 1..Len(cands) : cands[k] \in ColumnSet(t)}
    IN  IF hits = {} THEN NoneValue ELSE cands[MinOf(hits)]

\* line 36: the numeric columns, by position
NumericCols(t) == {c \in 1..Len(t.cols) : t.cols[c] \in t.numeric}

\* lines 53-56: a numeric column other than the time column whose values,
\* the missing ones apart, are 0 or 1
BinaryCols(t, tcol) ==
    {c \in NumericCols(t) :
        /\ t.cols[c] # tcol
        /\ \A r \in 1..Len(t.data) :
              t.data[r][c][1] = "num" => t.data[r][c][2] \in {Zero, One}}

\* lines 27-41
SvTimeCol ==
    /\ pc = "sv_time_col"
    /\ LET c == FirstCandidate(time_candidates, df)
       IN  IF c # NoneValue
           THEN /\ time_col' = c
                /\ pc' = "sv_event_col"
                /\ UNCHANGED error
           ELSE IF NumericCols(df) # {}
                THEN /\ time_col' = df.cols[MinOf(NumericCols(df))]
                     /\ pc' = "sv_event_col"
                     /\ UNCHANGED error
                ELSE /\ Raise(TimeColumnError)
                     /\ UNCHANGED time_col
    /\ UNCHANGED <<caller, ltVars, mdVars, clVars, cxVars, grVars, csv, df, copies, strata_col,
                   event_col, sv_env, meta, overall_km, sv_life_table, nelson_aalen,
                   strata_result, sv_result>>

\* lines 43-61
SvEventCol ==
    /\ pc = "sv_event_col"
    /\ LET c == FirstCandidate(event_candidates, df)
       IN  IF c # NoneValue
           THEN /\ event_col' = c
                /\ pc' = "sv_clean"
                /\ UNCHANGED error
           ELSE IF BinaryCols(df, time_col) # {}
                THEN /\ event_col' = df.cols[MinOf(BinaryCols(df, time_col))]
                     /\ pc' = "sv_clean"
                     /\ UNCHANGED error
                ELSE /\ Raise(EventColumnError)
                     /\ UNCHANGED event_col
    /\ UNCHANGED <<caller, ltVars, mdVars, clVars, cxVars, grVars, csv, df, copies, strata_col,
                   time_col, sv_env, meta, overall_km, sv_life_table, nelson_aalen,
                   strata_result, sv_result>>

\* line 64: the mapping {time_col: 'time', event_col: 'event'}; when both are
\* one column the dictionary keeps the later entry
RenamedName(name) ==
    IF name = event_col THEN "event" ELSE IF name = time_col THEN "time" ELSE name

Rename(t) ==
    [cols |-> [c \in 1..Len(t.cols) |-> RenamedName(t.cols[c])],
     data |-> t.data,
     numeric |-> {RenamedName(x) : x \in t.numeric}]

\* pd.to_numeric(errors='coerce') on a cell
ToNumeric(cell) == IF cell[1] = "str" THEN Missing ELSE cell

\* lines 72-73
Coerce(t) ==
    LET ti == ColIndex(t, "time")
        ei == ColIndex(t, "event")
    IN  [cols |-> t.cols,
         data |-> [r \in 1..Len(t.data) |->
                      [c \in 1..Len(t.cols) |->
                          IF c \in {ti, ei} THEN ToNumeric(t.data[r][c]) ELSE t.data[r][c]]],
         numeric |-> t.numeric \cup {"time", "event"}]

Complete_timeOnly(t, row) == row[ColIndex(t, "time")][1] = "num"

\* line 76: the row has a time and an event
Complete(t, row) ==
    /\ row[ColIndex(t, "time")][1] = "num"
    /\ row[ColIndex(t, "event")][1] = "num"

DropNa(t) ==
    [cols |-> t.cols,
     data |-> SelectSeq(t.data, LAMBDA row : Complete(t, row)),
     numeric |-> t.numeric]

\* lines 64-79
SvClean ==
    /\ pc = "sv_clean"
    /\ LET renamed == Rename(df)
       IN  IF "time" \notin ColumnSet(renamed)
           THEN /\ Raise(KeyError)
                /\ df' = renamed
           ELSE LET cleaned == DropNa(Coerce(renamed))
                IN  /\ df' = cleaned
                    /\ IF Len(cleaned.data) = 0
                       THEN Raise(EmptyError)
                       ELSE /\ pc' = "sv_estimate"
                            /\ UNCHANGED error
    /\ UNCHANGED <<caller, ltVars, mdVars, clVars, cxVars, grVars, csv, copies, strata_col,
                   time_col, event_col, sv_env, meta, overall_km, sv_life_table,
                   nelson_aalen, strata_result, sv_result>>

\* the cleaned frame's time and event of a row
TimeOf(row) == row[ColIndex(df, "time")][2]

EventOf(row) == row[ColIndex(df, "event")][2]

\* len() of the rows of rs that are in the index set K
CountRows(K) == copies * Cardinality(K)

RECURSIVE SortSet(_)
\* sorted(...) of a set of numbers
SortSet(S) ==
    IF S = {} THEN <<>>
    ELSE LET m == CHOOSE x \in S : \A y \in S : RLe(x, y)
         IN  <<m>> \o SortSet(S \ {m})

TimesOf(rs) == {TimeOf(rs[r]) : r \in 1..Len(rs)}

\* the value at position k (from 0) of the sorted times, each held `copies` times
SortedTimeAt(rs, k) ==
    CHOOSE x \in TimesOf(rs) :
        /\ CountRows({r \in 1..Len(rs) : RLt(TimeOf(rs[r]), x)}) <= k
        /\ k < CountRows({r \in 1..Len(rs) : RLe(TimeOf(rs[r]), x)})

\* line 85: df['time'].median()
Median(rs) ==
    LET len == copies * Len(rs)
    IN  IF len % 2 = 1 THEN SortedTimeAt(rs, len \div 2)
        ELSE RDiv(RAdd(SortedTimeAt(rs, len \div 2 - 1), SortedTimeAt(rs, len \div 2)), R(2))

RECURSIVE SumEvents(_, _)
\* df['event'].sum() over the first k rows
SumEvents(rs, k) ==
    IF k = 0 THEN Zero ELSE RAdd(SumEvents(rs, k - 1), RMul(R(copies), EventOf(rs[k])))

\* int(x) for x >= 0
Trunc(x) == x[1] \div x[2]

\* lines 82-92
Meta(rs) ==
    LET len == copies * Len(rs)
        n_events == Trunc(SumEvents(rs, Len(rs)))
    IN  [n |-> len, n_events |-> n_events, n_censored |-> len - n_events,
         median_follow_up |-> Median(rs)]

\* KaplanMeierFitter().fit(durations, event_observed): the number of
\* observations still at risk just before time x
AtRisk(rs, x) == CountRows({r \in 1..Len(rs) : RLe(x, TimeOf(rs[r]))})

Deaths_all(rs, x) == CountRows({r \in 1..Len(rs) : TimeOf(rs[r]) = x})

\* the number of events at time x
Deaths(rs, x) ==
    CountRows({r \in 1..Len(rs) : TimeOf(rs[r]) = x /\ EventOf(rs[r]) # Zero})

\* survival_function_.index: time 0 and the observed times, ascending
Timeline(rs) == SortSet({Zero} \cup TimesOf(rs))

RECURSIVE KMEstimate(_, _, _)
\* the product-limit estimate at position k of the timeline
KMEstimate(rs, line, k) ==
    IF k = 0 THEN One
    ELSE RMul(KMEstimate(rs, line, k - 1),
              RSub(One, RDiv(R(Deaths(rs, line[k])), R(AtRisk(rs, line[k])))))

Tokens(len) == [k \in 1..len |-> "float"]

\* lines 95-103, and lines 201-211 for one group
KaplanMeier(rs) ==
    LET line == Timeline(rs)
    IN  [timeline |-> line,
         survival |-> [k \in 1..Len(line) |-> KMEstimate(rs, line, k)],
         lower_ci |-> Tokens(Len(line)),
         upper_ci |-> Tokens(Len(line))]

\* lines 109-115; the cumulative hazard is lifelines' and stays a float
NelsonAalen(rs) ==
    LET line == Timeline(rs)
    IN  [timeline |-> line, cumhaz |-> Tokens(Len(line))]

RECURSIVE LifeRows(_, _, _)
\* lines 159-174: the loop over the unique times from position k on, with
\* n_at_risk observations left
LifeRows(rs, times, k) ==
    IF k > Len(times) THEN <<>>
    ELSE LET t == times[k]
             n_events == CountRows({r \in 1..Len(rs) :
                                       TimeOf(rs[r]) = t /\ EventOf(rs[r]) = One})
             n_censored == CountRows({r \in 1..Len(rs) :
                                         TimeOf(rs[r]) = t /\ EventOf(rs[r]) = Zero})
         IN  <<[time |-> t, observed |-> n_events, censored |-> n_censored]>>
             \o LifeRows(rs, times, k + 1)

RECURSIVE AtRiskColumn_eventsOnly(_, _, _)
\* n_at_risk decremented by the events alone
AtRiskColumn_eventsOnly(rows, k, n_at_risk) ==
    IF k > Len(rows) THEN <<>>
    ELSE <<n_at_risk>> \o AtRiskColumn_eventsOnly(rows, k + 1, n_at_risk - rows[k].observed)

RECURSIVE AtRiskColumn(_, _, _)
\* lines 157 and 174: n_at_risk before each row, given the count before row k
AtRiskColumn(rows, k, n_at_risk) ==
    IF k > Len(rows) THEN <<>>
    ELSE <<n_at_risk>>
         \o AtRiskColumn(rows, k + 1, n_at_risk - (rows[k].observed + rows[k].censored))

\* lines 141-176: compute_life_table(time, event) of survival_models.py
survival_life_table(rs) ==
    LET rows == LifeRows(rs, SortSet(TimesOf(rs)), 1)
        at_risk == AtRiskColumn(rows, 1, copies * Len(rs))
    IN  [k \in 1..Len(rows) |->
            [time |-> rows[k].time, at_risk |-> at_risk[k],
             observed |-> rows[k].observed, censored |-> rows[k].censored]]

\* lines 82-115
SvEstimate ==
    /\ pc = "sv_estimate"
    /\ meta' = Meta(df.data)
    /\ overall_km' = KaplanMeier(df.data)
    /\ sv_life_table' = survival_life_table(df.data)
    /\ nelson_aalen' = NelsonAalen(df.data)
    /\ pc' = "sv_strata"
    /\ UNCHANGED <<caller, error, ltVars, mdVars, clVars, cxVars, grVars, csv, df, copies,
                   strata_col, time_col, event_col, sv_env, strata_result, sv_result>>

RECURSIVE Unique(_, _)
\* df[strata_col].unique(): the values in order of first appearance, from row k
Unique(cells, k) ==
    IF k > Len(cells) THEN <<>>
    ELSE LET rest == Unique(cells, k + 1)
         IN  <<cells[k]>> \o SelectSeq(rest, LAMBDA x : x # cells[k])

\* line 194: df[df[strata_col] == group]; a missing value equals nothing
GroupRows(t, c, group) ==
    SelectSeq(t.data, LAMBDA row : row[c] = group /\ group[1] # "nan")

RECURSIVE GroupResults_keepAll(_, _, _, _)
\* every group kept, whatever its size
GroupResults_keepAll(t, c, groups, k) ==
    IF k > Len(groups) THEN <<>>
    ELSE LET rs == GroupRows(t, c, groups[k])
         IN  <<[group |-> groups[k], n |-> copies * Len(rs), km |-> KaplanMeier(rs)]>>
             \o GroupResults_keepAll(t, c, groups, k + 1)

RECURSIVE GroupResults(_, _, _, _)
\* lines 193-211: the loop over the groups from position k on
GroupResults(t, c, groups, k) ==
    IF k > Len(groups) THEN <<>>
    ELSE LET rs == GroupRows(t, c, groups[k])
             rest == GroupResults(t, c, groups, k + 1)
         IN  IF copies * Len(rs) < 2 THEN rest
             ELSE <<[group |-> groups[k], n |-> copies * Len(rs),
                     km |-> KaplanMeier(rs)]>> \o rest

LogRankOutcomes == {"float", "Exception"}

\* lines 179-228
compute_stratified_analysis(t, col, out) ==
    LET c == ColIndex(t, col)
        groups == Unique([r \in 1..Len(t.data) |-> t.data[r][c]], 1)
        results == GroupResults(t, c, groups, 1)
    IN  [column |-> col,
         results |-> results,
         logrank_p |-> IF Len(results) >= 2 /\ out = "float" THEN "float" ELSE NoneValue]

NoStrata == [column |-> NoneValue, results |-> <<>>, logrank_p |-> NoneValue]

\* lines 117-126
SvStrata ==
    /\ pc = "sv_strata"
    /\ IF strata_col # NoneValue /\ strata_col \in ColumnSet(df)
       THEN \E out \in LogRankOutcomes :
               /\ sv_env' = out
               /\ strata_result' = compute_stratified_analysis(df, strata_col, out)
       ELSE /\ strata_result' = NoStrata
            /\ UNCHANGED sv_env
    /\ pc' = "sv_cox"
    /\ UNCHANGED <<caller, error, ltVars, mdVars, clVars, cxVars, grVars, csv, df, copies,
                   strata_col, time_col, event_col, meta, overall_km, sv_life_table,
                   nelson_aalen, sv_result>>

\* line 243: the numeric columns other than time and event
Covariates(t) == {c \in NumericCols(t) : t.cols[c] \notin {"time", "event"}}

\* line 254: the rows without a missing covariate
CoxRows(t) ==
    {r \in 1..Len(t.data) : \A c \in Covariates(t) : t.data[r][c][1] = "num"}

\* the steps of compute_cox_model an exception can come from, for this frame
CoxFaultsFor(t) ==
    IF Covariates(t) = {} \/ TooFewRows(copies * Len(t.data)) THEN {"none"} ELSE CoxFaults

\* line 129: the call of compute_cox_model(df)
SvCallCox ==
    /\ pc = "sv_cox"
    /\ cox_rows' = copies * Len(df.data)
    /\ cox_covariates' = Cardinality(Covariates(df))
    /\ cox_complete' = CountRows(CoxRows(df))
    /\ cox_fault' \in CoxFaultsFor(df)
    /\ pc' = "cx_guard"
    /\ UNCHANGED <<caller, error, ltVars, mdVars, clVars, grVars, svVars, cox_fit_attempted,
                   cox_result>>

\* lines 131-138
SvReturn ==
    /\ pc = "sv_return"
    /\ sv_result' = [meta |-> meta, overall_km |-> overall_km,
                     life_table |-> sv_life_table, nelson_aalen |-> nelson_aalen,
                     strata |-> strata_result, cox |-> cox_result]
    /\ pc' = "done"
    /\ UNCHANGED <<caller, error, ltVars, mdVars, clVars, cxVars, grVars, csv, df, copies,
                   strata_col, time_col, event_col, sv_env, meta, overall_km,
                   sv_life_table, nelson_aalen, strata_result>>

SurvivalNext ==
    \/ SvTimeCol
    \/ SvEventCol
    \/ SvClean
    \/ SvEstimate
    \/ SvStrata
    \/ SvCallCox
    \/ CoxNext
    \/ SvReturn

\* the CSV files of the analyses: time and event under their names, clean or
\* not, and clean data with a third column to stratify and to regress on
TimeCells == {Num(1), Num(2), Missing, Text}

EventCells == {Num(0), Num(1), Missing, Text}

GroupCells == {Num(0), Num(1), Missing}

Layouts ==
    {[cols |-> <<"time", "event">>,
      rows |-> {<<t, e>> : t \in TimeCells, e \in EventCells},
      strata |-> {"group"}],
     [cols |-> <<"duration", "status", "group">>,
      rows |-> {<<t, e, g>> : t \in {Num(1), Num(2)}, e \in {Num(0), Num(1)},
                             g \in GroupCells},
      strata |-> {NoneValue, "group"}]}

\* pd.read_csv(csv_path)
ReadCsv(file) ==
    [cols |-> file.cols, data |-> file.data, numeric |-> InferNumeric(file.cols, file.data)]

SurvivalIdle ==
    /\ time_col = NoneValue /\ event_col = NoneValue
    /\ sv_env = <<>>
    /\ meta = <<>> /\ overall_km = <<>> /\ sv_life_table = <<>> /\ nelson_aalen = <<>>
    /\ strata_result = <<>>
    /\ sv_result = <<>>
    /\ ages = <<>> /\ qx = <<>> /\ radix = 0
    /\ NoLifeTable
    /\ NoMortality
    /\ NoChainLadder
    /\ NoCox
    /\ NoGraduation
    /\ NoService

InitSurvival ==
    /\ pc = "sv_time_col"
    /\ caller = "compute_survival_dashboard"
    /\ error = ""
    /\ \E layout \in Layouts, nr \in 0..MaxRows :
          /\ \E data \in [1..nr -> layout.rows] : csv = [cols |-> layout.cols, data |-> data]
          /\ strata_col \in layout.strata
    /\ df = ReadCsv(csv)
    /\ copies \in Copies
    /\ SurvivalIdle

SpecSurvival == InitSurvival /\ [][SurvivalNext]_vars

\* the CSV files of the column resolution: up to MaxCols columns under
\* distinct names, each a column of 0s and 1s, of other numbers, or of texts
MaxCols == 3

ColumnNames == {"time", "duration", "event", "status", "x"}

ColumnKinds ==
    [binary |-> <<Num(0), Num(1)>>, number |-> <<Num(1), Num(2)>>, text |-> <<Text, Text>>]

Headers(k) == {h \in [1..k -> ColumnNames] : \A a, b \in 1..k : a # b => h[a] # h[b]}

InitResolve ==
    /\ pc = "sv_time_col"
    /\ caller = "compute_survival_dashboard"
    /\ error = ""
    /\ \E k \in 0..MaxCols :
          \E h \in Headers(k), kinds \in [1..k -> DOMAIN ColumnKinds] :
              \E nr \in {0, 2} :
                  csv = [cols |-> h,
                         data |-> [r \in 1..nr |-> [c \in 1..k |-> ColumnKinds[kinds[c]][r]]]]
    /\ df = ReadCsv(csv)
    /\ strata_col = NoneValue
    /\ copies \in Copies \ {1}
    /\ SurvivalIdle

SpecResolve == InitResolve /\ [][SurvivalNext]_vars

----------------------------------------------------------------------------
(* The two dashboards together: a run is one call of one of them *)

InitDashboards == InitMortality \/ InitSurvival

DashboardsNext ==
    \/ MortalityNext
    \/ SurvivalNext

SpecDashboards == InitDashboards /\ [][DashboardsNext]_vars

----------------------------------------------------------------------------
(* The analysis jobs of api/v1/routes_analysis.py over utils/job_store.py.   *)
(* JOBS_DIR holds one file per job id and RESULTS_DIR one result file per    *)
(* job id.  An endpoint creates the job and hands it to its process function *)
(* (through the RQ queue or by a direct call); the process functions of      *)
(* different jobs run side by side.  The analysis itself is the environment: *)
(* it returns a result or raises an exception with a message.                *)

\* the variables of the computation routines
computeVars == <<pc, caller, error, ltVars, mdVars, clVars, cxVars, svVars, order,
                 lambda_param, fit_outcome, spline_outcome, ret, maVars>>

MaxJobs == 2

JobIds == 1..MaxJobs

JobKinds == {"survival", "glm", "timeseries", "ml_survival"}

\* what can go wrong in an analysis, by its message
AnalysisErrors == {EmptyError, "Unknown model type: x"}

SerializationError == "Object of type int64 is not JSON serializable"

JobNotFound == "Job not found"

\* no file of JOBS_DIR under the job id
NoJobFile == [status |-> "absent", result_path |-> NoneValue, error |-> NoneValue]

\* lines 51-61 of job_store.py
NewJob == [status |-> "queued", result_path |-> NoneValue, error |-> NoneValue]

\* lines 109, 320, 663: job["job_id"]; lines 443 and 460: the value returned by
\* create_job, the job dictionary itself
JobArgument(kind) == IF kind = "timeseries" THEN "job" ELSE "job_id"

\* line 83 of job_store.py: the file named after the argument exists; a job
\* dictionary names no file of JOBS_DIR
JobFileExists(j) == job_arg[j] = "job_id" /\ job_files[j] # NoJobFile

\* lines 90-91 of job_store.py
Updated(job, fields) ==
    [k \in DOMAIN job |-> IF k \in DOMAIN fields THEN fields[k] ELSE job[k]]

\* the failure recorded without its message
FailedFields_noError(kind, e) == [status |-> "failed"]

\* lines 285, 409 and 832-834 of routes_analysis.py
FailedFields(kind, e) ==
    [status |-> "failed",
     error |-> IF kind = "ml_survival" THEN e \o "\nTraceback" ELSE e]

\* line 153 of job_store.py
ResultPath(j) == "analysis_results/job_" \o ToString(j) \o ".json"

\* create_job and the hand-over to the process function
\* (lines 98-118, 304-337, 443-479, 648-679)
StartJob(j, kind) ==
    /\ job_pc[j] = "absent"
    /\ \A k \in JobIds : k < j => job_pc[k] # "absent"
    /\ job_files' = [job_files EXCEPT ![j] = NewJob]
    /\ job_kind' = [job_kind EXCEPT ![j] = kind]
    /\ job_arg' = [job_arg EXCEPT ![j] = JobArgument(kind)]
    /\ job_pc' = [job_pc EXCEPT ![j] = "pj_start"]
    /\ UNCHANGED <<result_files, job_exc, computeVars, regVars>>

\* update_job(job_id, status="started") (lines 272, 390, 530, 802)
PjStart(j) ==
    /\ job_pc[j] = "pj_start"
    /\ IF JobFileExists(j)
       THEN /\ job_files' = [job_files EXCEPT ![j] = Updated(@, [status |-> "started"])]
            /\ job_pc' = [job_pc EXCEPT ![j] = "pj_run"]
            /\ UNCHANGED job_exc
       ELSE /\ job_exc' = [job_exc EXCEPT ![j] = JobNotFound]
            /\ job_pc' = [job_pc EXCEPT ![j] = "pj_except"]
            /\ UNCHANGED job_files
    /\ UNCHANGED <<result_files, job_kind, job_arg, computeVars, regVars>>

\* the analysis (lines 275, 393-399, 533-539, 813-822)
PjRun(j) ==
    /\ job_pc[j] = "pj_run"
    /\ \/ /\ job_pc' = [job_pc EXCEPT ![j] = "pj_save"]
          /\ UNCHANGED job_exc
       \/ \E e \in AnalysisErrors :
             /\ job_exc' = [job_exc EXCEPT ![j] = e]
             /\ job_pc' = [job_pc EXCEPT ![j] = "pj_except"]
    /\ UNCHANGED <<job_files, result_files, job_kind, job_arg, computeVars, regVars>>

\* save_result(job_id, result) (lines 278, 402, 542, 825): the file is opened
\* for writing, and json.dump throws on a value that JSON cannot hold
PjSave(j) ==
    /\ job_pc[j] = "pj_save"
    /\ \/ /\ result_files' = [result_files EXCEPT ![j] = "json"]
          /\ job_pc' = [job_pc EXCEPT ![j] = "pj_finish"]
          /\ UNCHANGED job_exc
       \/ /\ result_files' = [result_files EXCEPT ![j] = "partial"]
          /\ job_exc' = [job_exc EXCEPT ![j] = SerializationError]
          /\ job_pc' = [job_pc EXCEPT ![j] = "pj_except"]
    /\ UNCHANGED <<job_files, job_kind, job_arg, computeVars, regVars>>

\* update_job(job_id, status="finished", result_path=result_path)
\* (lines 281, 405, 545, 828)
PjFinish(j) ==
    /\ job_pc[j] = "pj_finish"
    /\ job_files' = [job_files EXCEPT ![j] =
                        Updated(@, [status |-> "finished", result_path |-> ResultPath(j)])]
    /\ job_pc' = [job_pc EXCEPT ![j] = "returned"]
    /\ UNCHANGED <<result_files, job_kind, job_arg, job_exc, computeVars, regVars>>

\* the except branch: update_job(job_id, status="failed", error=...) and raise
\* (lines 283-286, 407-410, 547-550, 830-835); update_job raises itself when
\* the job file is not found
PjExcept(j) ==
    /\ job_pc[j] = "pj_except"
    /\ IF JobFileExists(j)
       THEN job_files' = [job_files EXCEPT ![j] =
                             Updated(@, FailedFields(job_kind[j], job_exc[j]))]
       ELSE UNCHANGED job_files
    /\ job_pc' = [job_pc EXCEPT ![j] = "raised"]
    /\ UNCHANGED <<result_files, job_kind, job_arg, job_exc, computeVars, regVars>>

JobsNext ==
    \E j \in JobIds :
        \/ \E kind \in JobKinds : StartJob(j, kind)
        \/ PjStart(j)
        \/ PjRun(j)
        \/ PjSave(j)
        \/ PjFinish(j)
        \/ PjExcept(j)

\* no routine of the computation engine is running
NoComputation ==
    /\ pc = "idle"
    /\ error = ""
    /\ ages = <<>> /\ qx = <<>> /\ radix = 0
    /\ NoLifeTable
    /\ NoMortality
    /\ NoChainLadder
    /\ NoCox
    /\ NoSurvival
    /\ NoGraduation

InitJobs ==
    /\ caller = "routes_analysis"
    /\ NoComputation
    /\ job_files = [j \in JobIds |-> NoJobFile]
    /\ result_files = [j \in JobIds |-> "absent"]
    /\ job_kind = [j \in JobIds |-> NoneValue]
    /\ job_arg = [j \in JobIds |-> NoneValue]
    /\ job_pc = [j \in JobIds |-> "absent"]
    /\ job_exc = [j \in JobIds |-> ""]
    /\ NoRegistry

SpecJobs == InitJobs /\ [][JobsNext]_vars

----------------------------------------------------------------------------
(* utils/dataset_registry.py: register_dataset, update_dataset and           *)
(* delete_dataset called from concurrent threads, thread t on dataset t.     *)
(* The registry is a function from the dataset ids to a metadata ("None"     *)
(* where the id is not a key).  load_registry and save_registry each hold    *)
(* REGISTRY_LOCK from their first to their last file operation, and are one  *)
(* step each; the lock is free between the two.                              *)

MaxThreads == 2

Threads == 1..MaxThreads

RegistryCalls == {"register_dataset", "update_dataset", "delete_dataset"}

\* lines 69, 114 and 134: what the call does to its local copy of the registry
Modified(registry, call, id) ==
    CASE call = "register_dataset" -> [registry EXCEPT ![id] = "new"]
      [] call = "update_dataset" -> [registry EXCEPT ![id] = "updated"]
      [] call = "delete_dataset" -> [registry EXCEPT ![id] = NoneValue]

\* lines 113 and 133: update_dataset and delete_dataset return False for an
\* unknown id, without saving
Skips(registry, call, id) == call # "register_dataset" /\ registry[id] = NoneValue

\* registry = load_registry() and the change of the local copy
\* (lines 68-69, 112-114, 132-134)
RegLoad(t) ==
    /\ reg_pc[t] = "load"
    /\ IF Skips(registry_file, reg_op[t], t)
       THEN /\ reg_local' = [reg_local EXCEPT ![t] = registry_file]
            /\ reg_pc' = [reg_pc EXCEPT ![t] = "done"]
       ELSE /\ reg_local' = [reg_local EXCEPT ![t] = Modified(registry_file, reg_op[t], t)]
            /\ reg_pc' = [reg_pc EXCEPT ![t] = "save"]
    /\ UNCHANGED <<registry_file, reg_op, computeVars, jobVars>>

\* save_registry(registry) (lines 70, 115, 135)
RegSave(t) ==
    /\ reg_pc[t] = "save"
    /\ registry_file' = reg_local[t]
    /\ reg_pc' = [reg_pc EXCEPT ![t] = "done"]
    /\ UNCHANGED <<reg_op, reg_local, computeVars, jobVars>>

RegistryNext ==
    \E t \in Threads :
        \/ RegLoad(t)
        \/ RegSave(t)

InitRegistry ==
    /\ caller = "dataset_registry"
    /\ NoComputation
    /\ NoJobs
    /\ registry_file \in [Threads -> {NoneValue, "old"}]
    /\ reg_op \in [Threads -> RegistryCalls]
    /\ reg_pc = [t \in Threads |-> "load"]
    /\ reg_local = [t \in Threads |-> <<>>]

SpecRegistry == InitRegistry /\ [][RegistryNext]_vars

----------------------------------------------------------------------------
(* Properties of compute_life_table, checked under SpecLifeTable *)

Returned == pc = "done" /\ caller = "compute_life_table"

Rows == DOMAIN life_table

\* C1: for qx in [0,1] and radix >= 0 the lx column is non-increasing and
\* stays within [0, radix]: 0 <= lx[k+1] <= lx[k] <= radix for every k, both in
\* the working array (index 0..n) once the recursion has run and in the rows
\* returned.
C1_LxNonIncreasing ==
    /\ pc \in {"lt_Lx", "lt_Tx_last", "lt_Tx", "lt_ex", "lt_frame", "done"} =>
          \A k \in 0..(n - 1) :
              /\ RLe(Zero, lx[k + 1])
              /\ RLe(lx[k + 1], lx[k])
              /\ RLe(lx[k], R(radix))
    /\ Returned =>
          \A k \in Rows :
              /\ RLe(Zero, life_table[k].lx)
              /\ RLe(life_table[k].lx, R(radix))
              /\ (k + 1) \in Rows => RLe(life_table[k + 1].lx, life_table[k].lx)

C1_Witness ==
    /\ Returned
    /\ n >= 3
    /\ RLt(life_table[1].lx, life_table[0].lx)
    /\ RLt(life_table[2].lx, life_table[1].lx)
    /\ RLt(Zero, life_table[2].lx)

RECURSIVE Survivors(_)
\* radix * (1 - qx[0]) * ... * (1 - qx[k-1])
Survivors(k) ==
    IF k = 0 THEN R(radix) ELSE RMul(Survivors(k - 1), RSub(One, qx[k - 1]))

\* C2: the table follows the forward recursion: row 0 reports lx = radix,
\* every row k reports dx = lx * qx and the survivors at the start of interval
\* k, and the next row's lx is this row's lx minus its dx (for the last row,
\* the working array's lx[n]).
C2_ForwardRecursion ==
    Returned =>
        \A k \in Rows :
            /\ k = 0 => life_table[k].lx = R(radix)
            /\ life_table[k].lx = Survivors(k)
            /\ life_table[k].dx = RMul(Survivors(k), qx[k])
            /\ lx[k + 1] = RSub(life_table[k].lx, life_table[k].dx)
            /\ (k + 1) \in Rows => life_table[k + 1].lx = lx[k + 1]

C2_Witness ==
    /\ Returned
    /\ n >= 2
    /\ radix = 100000
    /\ qx[0] = <<1, 4>>
    /\ life_table[0].dx = R(25000)
    /\ life_table[1].lx = R(75000)

RECURSIVE SumLx(_)
\* Lx[k] + Lx[k+1] + ... + Lx[n-1] over the rows returned
SumLx(k) ==
    IF k \notin Rows THEN Zero ELSE RAdd(life_table[k].Lx, SumLx(k + 1))

\* C3: Lx[k] = (lx[k] + lx[k+1]) / 2 in every row, Tx of the last row is its
\* Lx, Tx[k] = Tx[k+1] + Lx[k] in every earlier row, and so Tx[k] is the sum
\* of Lx[j] over j >= k.
C3_PersonYears ==
    Returned =>
        \A k \in Rows :
            /\ RMul(R(2), life_table[k].Lx) = RAdd(lx[k], lx[k + 1])
            /\ k = n - 1 => life_table[k].Tx = life_table[k].Lx
            /\ k < n - 1 =>
                  life_table[k].Tx = RAdd(life_table[k + 1].Tx, life_table[k].Lx)
            /\ life_table[k].Tx = SumLx(k)

C3_Witness ==
    /\ Returned
    /\ n >= 3
    /\ \A k \in Rows : RLt(Zero, life_table[k].Lx)
    /\ RLt(life_table[1].Tx, life_table[0].Tx)
    /\ RLt(life_table[2].Tx, life_table[1].Tx)

\* C4: in every row ex = Tx / lx when lx > 0 and ex = 0 when lx = 0, and no
\* division by zero is performed at any step.
C4_LifeExpectancy ==
    /\ \A k \in DOMAIN ex : IsFinite(ex[k])
    /\ Returned =>
          \A k \in Rows :
              /\ RLt(Zero, life_table[k].lx) =>
                    RMul(life_table[k].ex, life_table[k].lx) = life_table[k].Tx
              /\ life_table[k].lx = Zero => life_table[k].ex = Zero

C4_Witness ==
    /\ Returned
    /\ n >= 3
    /\ radix > 0
    /\ qx[0] = <<1, 2>>
    /\ qx[1] = One
    /\ RLt(Zero, life_table[0].ex)
    /\ life_table[2].lx = Zero
    /\ life_table[2].ex = Zero

Finished == pc \in {"done", "raised"}

\* C5: a call with ages and qx of different lengths fails with an
\* InvalidInputError.
C5_LengthMismatchRejected ==
    (Finished /\ Len0(ages) # Len0(qx)) =>
        (pc = "raised" /\ error = "InvalidInputError")

----------------------------------------------------------------------------
(* Properties of compute_mortality_dashboard, checked under SpecMortality *)

Normalised == caller = "compute_mortality_dashboard" /\ pc \notin {"md_normalize", "raised"}

InUnit(q) == RLe(Zero, q) /\ RLe(q, One)

DashboardReturned == pc = "done" /\ caller = "compute_mortality_dashboard"

ValidQx == \A k \in DOMAIN qx : InUnit(qx[k])

HalfRadix == RDiv(life_table[0].lx, R(2))

Crossed(k) == RLe(life_table[k].lx, HalfRadix)

Distance(k) == RAbs(RSub(life_table[k].lx, HalfRadix))

\* C7 as stated: median_age_at_death is the age of the first row at which lx
\* is at or below radix/2, whenever some row is.
C7_MedianIsFirstCrossing ==
    (DashboardReturned /\ ValidQx /\ \E k \in Rows : Crossed(k)) =>
        \E k \in Rows :
            /\ Crossed(k)
            /\ \A j \in Rows : j < k => ~Crossed(j)
            /\ kpis.median_age_at_death = ages[k]

\* C7 amended: median_age_at_death is the age of the first row, in ascending
\* age order, whose lx is nearest to radix/2 (|lx - radix/2| minimal over all
\* rows), for every valid qx series; that row may lie before the first
\* crossing of radix/2.
C7_MedianIsNearestRow ==
    (DashboardReturned /\ ValidQx) =>
        \E k \in Rows :
            /\ \A j \in Rows : RLe(Distance(k), Distance(j))
            /\ \A j \in Rows : j < k => RLt(Distance(k), Distance(j))
            /\ kpis.median_age_at_death = ages[k]

C7_Witness ==
    /\ DashboardReturned
    /\ ValidQx
    /\ n >= 3
    /\ ages[0] = 60
    /\ ~Crossed(1)
    /\ Crossed(2)
    /\ RLt(Distance(1), Distance(2))
    /\ kpis.median_age_at_death = 61

----------------------------------------------------------------------------
(* Properties of run_chain_ladder_from_csv, checked under SpecChainLadder *)

\* C8: a triangle with fewer than 2 development columns is rejected with the
\* "at least 2 development periods" error (the insufficient-data error of the
\* code, a ValueError), no factor is ever computed and no result is returned.
C8_TooFewDevColumnsRejected ==
    n_dev_cols < 2 =>
        /\ pc \in {"cl_validate", "raised"}
        /\ dev_factors = <<>> /\ result = <<>>
        /\ Finished => pc = "raised"
        /\ (Finished /\ has_origin) => error = DevPeriodsError

C8_Witness ==
    /\ has_origin
    /\ n_dev_cols = 1
    /\ n_origin = 2
    /\ pc = "raised"
    /\ error = DevPeriodsError

\* C9: a triangle with fewer than 2 origin rows (and 2 or more development
\* columns) is rejected with an insufficient-data error and no development
\* factors or reserve estimate are returned.
C9_TooFewOriginRowsRejected ==
    (Finished /\ has_origin /\ n_dev_cols >= 2 /\ n_origin < 2) =>
        (pc = "raised" /\ error # "" /\ result = <<>>)

RECURSIVE SetSum(_, _, _)
\* the sum of column c of the triangle over the rows in rows
SetSum(tri, c, rows) ==
    IF rows = {} THEN Zero
    ELSE LET r == CHOOSE x \in rows : TRUE
         IN  RAdd(tri[r][c], SetSum(tri, c, rows \ {r}))

BothPresent(c) ==
    {r \in DOMAIN triangle : triangle[r][c] # NaN /\ triangle[r][c + 1] # NaN}

\* the rows are rows of the synthetic triangle o * (d + 1) * 100
Synthetic ==
    \A r \in DOMAIN triangle : \E o \in 0..2 : \A d \in DOMAIN triangle[r] :
        triangle[r][d] = NaN \/ triangle[r][d] = R(o * (d + 1) * 100)

\* C10: compute_development_factors returns n_dev - 1 factors; factor c times
\* the sum of column c over the rows with both cells present equals the sum of
\* column c + 1 over those rows (the volume-weighted ratio), and the factor is
\* 1.0 when no row has both cells or the denominator sum is zero. On rows of
\* the synthetic triangle o * (d + 1) * 100 factor d is (d + 2) / (d + 1)
\* wherever the denominator sum is not zero.
C10_VolumeWeightedFactors ==
    pc \in {"cl_ultimate", "cl_diagonal", "cl_return", "done"} =>
        /\ DOMAIN dev_factors = 0..(n_dev_cols - 2)
        /\ Len0(dev_factors) = n_dev_cols - 1
        /\ \A c \in DOMAIN dev_factors :
              LET cur == SetSum(triangle, c, BothPresent(c))
                  nxt == SetSum(triangle, c + 1, BothPresent(c))
              IN  /\ cur # Zero => RMul(dev_factors[c], cur) = nxt
                  /\ (BothPresent(c) = {} \/ cur = Zero) => dev_factors[c] = One
                  /\ (Synthetic /\ cur # Zero) => dev_factors[c] = <<c + 2, c + 1>>

\* the synthetic triangle with origins 1 and 2, the second row one period short
C10_Witness ==
    /\ pc = "done"
    /\ n_dev_cols = 3
    /\ n_origin = 2
    /\ Synthetic
    /\ triangle[0] = [d \in 0..2 |-> R((d + 1) * 100)]
    /\ triangle[1] = [d \in 0..2 |-> IF d < 2 THEN R(2 * (d + 1) * 100) ELSE NaN]
    /\ result.development_factors = (0 :> <<2, 1>> @@ 1 :> <<3, 2>>)

Present(r) == {d \in DOMAIN triangle[r] : triangle[r][d] # NaN}

\* the populated cell of row r with the highest development index
LatestPopulated(r) ==
    triangle[r][CHOOSE d \in Present(r) : \A e \in Present(r) : e <= d]

RECURSIVE Total(_, _)
\* the sum of f over the rows in rows
Total(f, rows) ==
    IF rows = {} THEN Zero
    ELSE LET r == CHOOSE x \in rows : TRUE IN RAdd(f[r], Total(f, rows \ {r}))

\* C11: reserve_estimate is the sum over all origin rows of ultimate minus the
\* latest populated value; an all-missing row has latest value 0 and ultimate
\* 0, and a row populated at the final development column has ultimate equal
\* to its latest value, so both contribute exactly 0.
C11_ReserveEstimate ==
    /\ pc \in {"cl_return", "done"} =>
          \A r \in DOMAIN triangle :
              /\ Present(r) = {} => latest_diagonal[r] = Zero /\ ultimate[r] = Zero
              /\ Present(r) # {} => latest_diagonal[r] = LatestPopulated(r)
              /\ (n_dev_cols - 1) \in Present(r) => ultimate[r] = LatestPopulated(r)
    /\ pc = "done" =>
          result.reserve_estimate =
              Total([r \in DOMAIN triangle |->
                        IF Present(r) = {} \/ (n_dev_cols - 1) \in Present(r)
                        THEN Zero
                        ELSE RSub(ultimate[r], LatestPopulated(r))],
                    DOMAIN triangle)

\* a full row (contributing 0) and a row with one cell, projected by 2 * 3/2
C11_Witness ==
    /\ pc = "done"
    /\ n_dev_cols = 3
    /\ n_origin = 2
    /\ triangle[0] = [d \in 0..2 |-> R((d + 1) * 100)]
    /\ Present(1) = {0}
    /\ triangle[1][0] = R(200)
    /\ ultimate[0] = R(300)
    /\ ultimate[1] = R(600)
    /\ result.reserve_estimate = R(400)

RECURSIVE FactorsThrough(_, _)
\* dev_factors[a] * dev_factors[a + 1] * ... * dev_factors[last]
FactorsThrough(a, last) ==
    IF a > last THEN One
    ELSE RMul(FactorsThrough(a, last - 1), dev_factors[last])

\* the highest development index of a populated cell of row r
LatestIndex(r) == CHOOSE d \in Present(r) : \A e \in Present(r) : e <= d

\* C21: project_ultimate sets each origin row's ultimate to its latest
\* populated value (at development index a) multiplied by dev_factors[a],
\* dev_factors[a + 1], ..., dev_factors[n_dev - 2]; a row populated at the
\* final development column gets its latest value, and a row with no populated
\* cell gets 0.0.
C21_ProjectUltimate ==
    pc \in {"cl_diagonal", "cl_return", "done"} =>
        /\ DOMAIN ultimate = DOMAIN triangle
        /\ \A r \in DOMAIN triangle :
              IF Present(r) = {} THEN ultimate[r] = Zero
              ELSE /\ ultimate[r] =
                        RMul(triangle[r][LatestIndex(r)],
                             FactorsThrough(LatestIndex(r), n_dev_cols - 2))
                   /\ LatestIndex(r) = n_dev_cols - 1 =>
                        ultimate[r] = triangle[r][n_dev_cols - 1]

\* a row with its first cell only, carried through both factors 2 and 3/2
C21_Witness ==
    /\ pc = "cl_diagonal"
    /\ n_dev_cols = 3
    /\ n_origin = 2
    /\ triangle[0] = [d \in 0..2 |-> R((d + 1) * 100)]
    /\ Present(1) = {0}
    /\ triangle[1][0] = R(200)
    /\ dev_factors = (0 :> <<2, 1>> @@ 1 :> <<3, 2>>)
    /\ ultimate[1] = R(600)

\* a row with an inner gap beside a row with no populated cell
C21_WitnessEmptyRow ==
    /\ pc = "cl_diagonal"
    /\ n_dev_cols = 3
    /\ n_origin = 2
    /\ Present(0) = {0, 2}
    /\ Present(1) = {}
    /\ ultimate[1] = Zero

----------------------------------------------------------------------------
(* Properties of compute_cox_model, checked under SpecCox *)

CoxReturned == pc = "done" /\ caller = "compute_cox_model"

\* the data is too thin for a fit: no covariate, too few rows, or too few rows
\* left by dropna (which then has run to its end)
ThinData ==
    \/ cox_covariates = 0
    \/ cox_rows < 10
    \/ cox_fault # "prepare" /\ cox_complete < 10

\* C13: when there is no numeric covariate besides time and event, or fewer
\* than 10 rows, or fewer than 10 rows once the rows with a missing value are
\* dropped, compute_cox_model does not raise, never calls the fit, and
\* returns exactly {concordance: None, summary: []}.
C13_NoFitOnThinData ==
    ThinData =>
        /\ pc \notin {"raised", "cx_fit", "cx_summary"}
        /\ ~cox_fit_attempted
        /\ CoxReturned => cox_result = [concordance |-> "None", summary |-> <<>>]

C13_Witness ==
    /\ CoxReturned
    /\ cox_covariates = 1 /\ cox_rows = 11 /\ cox_complete = 9
    /\ cox_fault = "fit"
    /\ cox_result = [concordance |-> "None", summary |-> <<>>]

\* C14: compute_cox_model never raises: an exception thrown while the data
\* is prepared, the model fitted or the summary read is caught, and the call
\* returns concordance None, an empty summary and the error message.
C14_CoxNeverRaises ==
    /\ pc # "raised"
    /\ error = ""
    /\ CoxReturned =>
          /\ "concordance" \in DOMAIN cox_result /\ "summary" \in DOMAIN cox_result
          /\ "error" \in DOMAIN cox_result =>
                /\ cox_result.concordance = "None"
                /\ cox_result.summary = <<>>
                /\ cox_result.error \in {CoxError(st) : st \in CoxFaults \ {"none"}}
          /\ ~ThinData /\ cox_fault # "none" => "error" \in DOMAIN cox_result

C14_Witness ==
    /\ CoxReturned
    /\ cox_fit_attempted
    /\ cox_fault = "summary"
    /\ cox_result = [concordance |-> "None", summary |-> <<>>, error |-> CoxError("summary")]
----------------------------------------------------------------------------
(* Properties of fit_gompertz and fit_makeham, checked under SpecFit *)

FitReturned == pc = "done" /\ caller \in {"fit_gompertz", "fit_makeham"}

ParameterNames == IF caller = "fit_gompertz" THEN {"alpha", "beta"} ELSE {"A", "B", "C"}

\* C18: fit_gompertz and fit_makeham never raise when the optimizer fails.
\* They return either a result with success true that carries the parameters
\* (alpha, beta; A, B, C), one fitted qx per age, r_squared and rmse, or a
\* result with success false that carries the error message, no parameter and
\* no fitted qx; the second exactly when curve_fit threw.
C18_FitNeverRaises ==
    /\ pc # "raised"
    /\ FitReturned =>
          /\ ret.success \in BOOLEAN
          /\ ret.success =>
                /\ DOMAIN ret.parameters = ParameterNames
                /\ DOMAIN ret.fitted_qx = DOMAIN ages
                /\ {"r_squared", "rmse"} \subseteq DOMAIN ret
                /\ "error" \notin DOMAIN ret
          /\ ~ret.success =>
                /\ ret.error # ""
                /\ ret.parameters = <<>>
                /\ ret.fitted_qx = <<>>
                /\ {"r_squared", "rmse"} \cap DOMAIN ret = {}
          /\ ret.success <=> CurveFit(ages, qx, Cardinality(ParameterNames), fit_outcome) = ""
          /\ fit_outcome = "RuntimeError" => ~ret.success

C18_Witness ==
    /\ FitReturned
    /\ caller = "fit_makeham"
    /\ n = 3
    /\ fit_outcome = "RuntimeError"
    /\ ret.success = FALSE
    /\ ret.error = "RuntimeError"

----------------------------------------------------------------------------
(* Properties of penalized_spline_smooth, checked under SpecSpline *)

SplineReturned == pc = "done" /\ caller = "penalized_spline_smooth"

\* C19: penalized_spline_smooth never propagates an error: when the spline
\* throws it returns the raw qx unmodified, otherwise it returns the spline's
\* values clipped to [0, 1].
C19_SplineNeverRaises ==
    /\ pc # "raised"
    /\ SplineReturned =>
          /\ spline_outcome.error # "" => ret = qx
          /\ spline_outcome.error = "" =>
                /\ DOMAIN ret = DOMAIN qx
                /\ \A k \in DOMAIN ret :
                      /\ RLe(Zero, ret[k]) /\ RLe(ret[k], One)
                      /\ LET v == spline_outcome.values[k]
                         IN  ret[k] = IF RLt(v, Zero) THEN Zero
                                      ELSE IF RLt(One, v) THEN One ELSE v

C19_WitnessClipped ==
    /\ SplineReturned
    /\ n = 4
    /\ spline_outcome.error = ""
    /\ spline_outcome.values[0] = <<-1, 4>> /\ ret[0] = Zero
    /\ spline_outcome.values[1] = <<9, 4>> /\ ret[1] = One
    /\ spline_outcome.values[2] = <<1, 4>> /\ ret[2] = <<1, 4>>

C19_Witness ==
    /\ SplineReturned
    /\ n = 4
    /\ spline_outcome.error # ""
    /\ ret = qx
    /\ qx[0] = R(2)
----------------------------------------------------------------------------
(* Properties of whittaker_henderson, checked under SpecWhittaker *)

WhReturned == pc = "done" /\ caller = "whittaker_henderson"

\* C20: with lambda_param = 0 whittaker_henderson returns the raw qx series,
\* whatever the order of differences and for every qx in [0, 1] (the penalty
\* vanishes and the system matrix is the identity, up to the regularisation
\* of relative size 1e-10); and for every lambda_param the values returned lie
\* in [0, 1], one per raw value.
C20_WhittakerFidelity ==
    WhReturned =>
        /\ DOMAIN ret = DOMAIN qx
        /\ lambda_param = Zero =>
              /\ SystemMatrix(Len0(qx), order, lambda_param)
                     = [r \in DOMAIN qx |-> [c \in DOMAIN qx |-> R(Eye(Len0(qx))[r][c])]]
              /\ ret = qx
        /\ \A k \in DOMAIN ret : RLe(Zero, ret[k]) /\ RLe(ret[k], One)

C20_Witness ==
    /\ WhReturned
    /\ lambda_param = Zero
    /\ order = 2
    /\ qx = [k \in 0..3 |-> IF k = 1 THEN One ELSE <<1, 4>>]
    /\ ret = qx

\* with a positive lambda_param the solution leaves [0, 1] and is clipped
C20_WitnessClipped ==
    /\ WhReturned
    /\ lambda_param = One
    /\ order = 2
    /\ qx = [k \in 0..2 |-> IF k = 0 THEN One ELSE Zero]
    /\ Solve(SystemMatrix(3, 2, One), qx)[2] = <<-1, 7>>
    /\ ret = [k \in 0..2 |-> IF k = 0 THEN <<6, 7>> ELSE IF k = 1 THEN <<2, 7>> ELSE Zero]
----------------------------------------------------------------------------
(* Properties of compute_survival_dashboard, checked under SpecSurvival and *)
(* SpecResolve                                                               *)

\* the cells of the CSV under the resolved time and event columns
CsvTime(row) == row[CHOOSE c \in 1..Len(csv.cols) : csv.cols[c] = time_col]

CsvEvent(row) == row[CHOOSE c \in 1..Len(csv.cols) : csv.cols[c] = event_col]

IsNumber(cell) == cell[1] = "num"

\* the lines of the CSV with a number for the time and for the event
ValidLines == SelectSeq(csv.data, LAMBDA row : IsNumber(CsvTime(row)) /\ IsNumber(CsvEvent(row)))

Resolving == pc \in {"sv_time_col", "sv_event_col", "sv_clean"}

NothingEstimated ==
    /\ meta = <<>> /\ overall_km = <<>> /\ sv_life_table = <<>> /\ nelson_aalen = <<>>
    /\ strata_result = <<>>
    /\ cox_result = <<>> /\ ~cox_fit_attempted
    /\ sv_result = <<>>

\* C12: for events coded 0/1 the Kaplan-Meier series of overall_km is
\* non-increasing along the timeline, is 1 before the first event time,
\* changes only at times with at least one event (so it drops at no more than
\* n_events points), and reaches 0 only if every observation at the largest
\* observed time is an event.
C12_KaplanMeierShape ==
    overall_km # <<>> =>
        LET T == overall_km.timeline
            S == overall_km.survival
            rs == df.data
            EventAt(x) == \E r \in 1..Len(rs) : TimeOf(rs[r]) = x /\ EventOf(rs[r]) = One
            Drops == {k \in 1..Len(T) : S[k] # (IF k = 1 THEN One ELSE S[k - 1])}
        IN  /\ Len(S) = Len(T)
            /\ \A k \in 1..Len(T) : RLe(Zero, S[k]) /\ RLe(S[k], One)
            /\ \A k \in 1..(Len(T) - 1) : RLt(T[k], T[k + 1]) /\ RLe(S[k + 1], S[k])
            /\ \A k \in 1..Len(T) :
                  (\A j \in 1..k : ~EventAt(T[j])) => S[k] = One
            /\ \A k \in Drops : EventAt(T[k])
            /\ Cardinality(Drops) <= meta.n_events
            /\ (\E k \in 1..Len(T) : S[k] = Zero) =>
                  \A r \in 1..Len(rs) :
                      TimeOf(rs[r]) = T[Len(T)] => EventOf(rs[r]) = One

C12_Witness ==
    /\ pc = "done"
    /\ Len(df.data) = 2
    /\ csv.data = <<<<Num(2), Num(1)>>, <<Num(1), Num(1)>>>>
    /\ overall_km.timeline = <<Zero, One, R(2)>>
    /\ overall_km.survival = <<One, <<1, 2>>, Zero>>

\* a censored observation at the largest time keeps the series above 0
C12_WitnessCensored ==
    /\ pc = "done"
    /\ csv.data = <<<<Num(1), Num(1)>>, <<Num(2), Num(0)>>>>
    /\ overall_km.survival = <<One, <<1, 2>>, <<1, 2>>>>

\* C15: compute_survival_dashboard keeps exactly the lines whose time and
\* event are numbers; when none is left it raises the error "No valid data
\* rows after cleaning" with no estimator computed (meta, Kaplan-Meier, life
\* table, Nelson-Aalen, strata, Cox) and nothing returned, and it raises that
\* error in no other case.
C15_EmptyAfterCleaningRejected ==
    /\ (~Resolving /\ error \in {"", EmptyError}) => df.data = ValidLines
    /\ (~Resolving /\ error \in {"", EmptyError} /\ ValidLines = <<>>) =>
          /\ pc = "raised"
          /\ error = EmptyError
          /\ NothingEstimated
    /\ error = EmptyError => pc = "raised" /\ ValidLines = <<>>
    /\ pc = "raised" => NothingEstimated

C15_Witness ==
    /\ pc = "raised"
    /\ error = EmptyError
    /\ csv.data = <<<<Text, Num(1)>>, <<Num(1), Missing>>>>
    /\ df.data = <<>>
    /\ NothingEstimated

\* the names of the list that are columns of the CSV, by position in the list
CandidateHits(cands) ==
    {k \in 1..Len(cands) : \E c \in 1..Len(csv.cols) : csv.cols[c] = cands[k]}

\* the columns of the CSV without a text; the CSV has lines
CsvNumeric ==
    {c \in 1..Len(csv.cols) :
        Len(csv.data) > 0 /\ \A r \in 1..Len(csv.data) : csv.data[r][c][1] # "str"}

\* the numeric columns other than the time column whose numbers are 0 or 1
CsvBinaryOther ==
    {c \in CsvNumeric :
        /\ csv.cols[c] # time_col
        /\ \A r \in 1..Len(csv.data) :
              IsNumber(csv.data[r][c]) => csv.data[r][c][2] \in {Zero, One}}

TimeResolved == pc # "sv_time_col" /\ error # TimeColumnError

EventResolved == TimeResolved /\ pc # "sv_event_col" /\ error # EventColumnError

\* C16: the column resolution raises the missing-time-column error exactly
\* when no time candidate is a column and no column is numeric, and the
\* missing-event-column error exactly when no event candidate is a column and
\* no numeric column other than the time column has only 0 and 1 for numbers;
\* otherwise it takes the first candidate, in the order of the list, that is a
\* column, and the first fallback column of the file only when no candidate is.
C16_ColumnResolution ==
    /\ error = TimeColumnError <=>
          pc = "raised" /\ CandidateHits(time_candidates) = {} /\ CsvNumeric = {}
    /\ TimeResolved =>
          /\ CandidateHits(time_candidates) # {} =>
                /\ time_col \in {time_candidates[k] : k \in CandidateHits(time_candidates)}
                /\ \A k \in CandidateHits(time_candidates) :
                      \E j \in 1..k : time_candidates[j] = time_col
          /\ CandidateHits(time_candidates) = {} =>
                \E c \in CsvNumeric :
                    /\ csv.cols[c] = time_col
                    /\ \A b \in CsvNumeric : c <= b
          /\ error = EventColumnError <=>
                pc = "raised" /\ CandidateHits(event_candidates) = {} /\ CsvBinaryOther = {}
    /\ EventResolved =>
          /\ CandidateHits(event_candidates) # {} =>
                /\ event_col \in {event_candidates[k] : k \in CandidateHits(event_candidates)}
                /\ \A k \in CandidateHits(event_candidates) :
                      \E j \in 1..k : event_candidates[j] = event_col
          /\ CandidateHits(event_candidates) = {} =>
                \E c \in CsvBinaryOther :
                    /\ csv.cols[c] = event_col
                    /\ \A b \in CsvBinaryOther : c <= b

\* the file lists the later candidate first, and the fallback is not used
C16_Witness ==
    /\ pc = "done"
    /\ csv.cols = <<"x", "duration", "time">>
    /\ time_col = "time"
    /\ event_col = "x"
    /\ CsvNumeric = {1, 2, 3}

C16_WitnessRejected ==
    /\ pc = "raised"
    /\ error = EventColumnError
    /\ csv.cols = <<"x", "duration">>
    /\ time_col = "duration"
    /\ CsvNumeric = {1, 2}
----------------------------------------------------------------------------
(* Properties of the two dashboards, checked under SpecDashboards *)

InMortality == caller = "compute_mortality_dashboard"

InSurvival == caller = "compute_survival_dashboard"

SubModelsRan == InMortality /\ md_env # <<>>

SplineThrew == md_env.spline.error # ""

CoxThrew == InSurvival /\ cox_result # <<>> /\ "error" \in DOMAIN cox_result

FiniteSeries(a) == DOMAIN a = DOMAIN ages /\ \A k \in DOMAIN a : IsFinite(a[k])

\* C17: a failed sub-model does not abort the analysis.  In the mortality
\* dashboard no exception leaves the graduation and fitting steps: whatever
\* the spline and the two fits do, the Whittaker-Henderson and moving-average
\* series are computed, a spline that threw leaves the raw qx, each fit
\* succeeds or fails on its own account, and the call returns with raw data,
\* life table and KPIs.  In the survival dashboard a Cox fit that throws
\* leaves meta, overall_km, life_table and nelson_aalen computed, and the call
\* returns them with the Cox error.
C17_PartialFailure ==
    /\ (InMortality /\ pc = "raised") => md_env = <<>> /\ qx_raw = <<>>
    /\ SubModelsRan =>
          /\ pc \in {"md_kpis", "done"}
          /\ DOMAIN qx_raw = DOMAIN ages
          /\ DOMAIN life_table = DOMAIN ages
          /\ FiniteSeries(graduated.whittaker_henderson)
          /\ FiniteSeries(graduated.moving_average)
          /\ FiniteSeries(graduated.penalized_spline)
          /\ SplineThrew => graduated.penalized_spline = qx_raw
          /\ fitted_models.gompertz.success
                <=> CurveFit(ages, qx_raw, 2, md_env.gompertz) = ""
          /\ fitted_models.makeham.success
                <=> CurveFit(ages, qx_raw, 3, md_env.makeham) = ""
          /\ pc = "done" =>
                /\ IsFinite(kpis.total_deaths)
                /\ kpis.total_population = R(DefaultRadix)
    /\ (InSurvival /\ pc = "raised") => cox_result = <<>> /\ ~cox_fit_attempted
    /\ CoxThrew =>
          /\ pc \in {"sv_return", "done"}
          /\ meta.n = copies * Len(df.data) /\ meta.n >= MinCoxRows
          /\ Len(overall_km.survival) >= 2
          /\ Len(sv_life_table) >= 1
          /\ Len(nelson_aalen.cumhaz) >= 2
          /\ cox_result.concordance = NoneValue /\ cox_result.summary = <<>>
          /\ pc = "done" =>
                sv_result = [meta |-> meta, overall_km |-> overall_km,
                             life_table |-> sv_life_table, nelson_aalen |-> nelson_aalen,
                             strata |-> strata_result, cox |-> cox_result]

\* the spline and the Makeham fit throw, the Gompertz fit succeeds
C17_Witness ==
    /\ InMortality
    /\ pc = "done"
    /\ n = 3
    /\ SplineThrew
    /\ fitted_models.gompertz.success
    /\ ~fitted_models.makeham.success /\ fitted_models.makeham.error = "RuntimeError"
    /\ graduated.penalized_spline = qx_raw
    /\ FiniteSeries(graduated.moving_average)

\* the Cox fit throws and the survival dashboard returns
C17_WitnessCox ==
    /\ InSurvival
    /\ pc = "done"
    /\ cox_fit_attempted
    /\ cox_fault = "fit"
    /\ sv_result.cox.error = CoxError("fit")
    /\ sv_result.overall_km.survival = <<One, <<1, 2>>, Zero>>
----------------------------------------------------------------------------
(* Properties of the survival life table and of the stratified analysis,    *)
(* checked under SpecSurvival                                               *)

\* C22: for events coded 0/1 the survival life table has one row per distinct
\* time in ascending order; the first row's at_risk is the number of cleaned
\* rows, each later row's at_risk is the previous row's at_risk minus that
\* row's observed and censored counts, so at_risk at time t is the number of
\* subjects with time >= t, and at_risk >= observed + censored >= 1 in every
\* row.
C22_LifeTableAtRisk ==
    sv_life_table # <<>> =>
        LET T == sv_life_table
            rs == df.data
        IN  /\ Len(T) = Cardinality(TimesOf(rs))
            /\ {T[k].time : k \in 1..Len(T)} = TimesOf(rs)
            /\ \A k \in 1..(Len(T) - 1) : RLt(T[k].time, T[k + 1].time)
            /\ T[1].at_risk = copies * Len(rs)
            /\ T[1].at_risk = meta.n
            /\ \A k \in 2..Len(T) :
                  T[k].at_risk = T[k - 1].at_risk - (T[k - 1].observed + T[k - 1].censored)
            /\ \A k \in 1..Len(T) :
                  /\ T[k].at_risk =
                        copies * Cardinality({r \in 1..Len(rs) : RLe(T[k].time, TimeOf(rs[r]))})
                  /\ T[k].at_risk >= T[k].observed + T[k].censored
                  /\ T[k].observed + T[k].censored >= 1

\* a censored observation at time 1 leaves one subject at risk at time 2
C22_Witness ==
    /\ pc = "done"
    /\ copies = 1
    /\ csv.data = <<<<Num(2), Num(1)>>, <<Num(1), Num(0)>>>>
    /\ Len(sv_result.life_table) = 2
    /\ sv_result.life_table[1] = [time |-> One, at_risk |-> 2, observed |-> 0, censored |-> 1]
    /\ sv_result.life_table[2] = [time |-> R(2), at_risk |-> 1, observed |-> 1, censored |-> 0]

\* the values of the strata column in the cleaned frame, missing ones aside
StrataValues ==
    {df.data[r][ColIndex(df, strata_col)] : r \in 1..Len(df.data)} \ {Missing}

\* the number of observations of the cleaned frame in group g
GroupSize(g) ==
    copies * Cardinality({r \in 1..Len(df.data) : df.data[r][ColIndex(df, strata_col)] = g})

Stratified == strata_result # <<>> /\ strata_result.column # NoneValue

\* C23: in compute_stratified_analysis a group with fewer than 2 observations
\* never appears in strata.results and raises no error; every group with at
\* least 2 observations appears exactly once with n equal to its row count;
\* logrank_p is None whenever fewer than 2 groups were kept or the log-rank
\* test throws.  A group is a value of the strata column: rows whose strata
\* value is missing belong to no group (line 194 selects none of them).
C23_StratifiedGroups ==
    /\ Stratified =>
          LET res == strata_result.results
          IN  /\ strata_result.column = strata_col
              /\ \A k \in 1..Len(res) : res[k].group \in StrataValues /\ res[k].n >= 2
              /\ \A g \in StrataValues :
                    LET at == {k \in 1..Len(res) : res[k].group = g}
                    IN  IF GroupSize(g) < 2 THEN at = {}
                        ELSE /\ Cardinality(at) = 1
                             /\ \A k \in at : res[k].n = GroupSize(g)
              /\ (Len(res) < 2 \/ sv_env = "Exception") =>
                    strata_result.logrank_p = NoneValue
    /\ pc = "raised" => strata_result = <<>>

\* two groups of one observation each: none is kept, and no test is run
C23_Witness ==
    /\ pc = "done"
    /\ Stratified
    /\ copies = 1
    /\ Len(df.data) = 2
    /\ StrataValues = {Num(0), Num(1)}
    /\ sv_result.strata = [column |-> "group", results |-> <<>>, logrank_p |-> NoneValue]

\* two groups of five observations each, and the log-rank test throws
C23_WitnessLogRankThrows ==
    /\ pc = "done"
    /\ Stratified
    /\ copies = 5
    /\ StrataValues = {Num(0), Num(1)}
    /\ Len(sv_result.strata.results) = 2
    /\ \A k \in 1..2 : sv_result.strata.results[k].n = 5
    /\ sv_env = "Exception"
    /\ sv_result.strata.logrank_p = NoneValue

\* the rows with a missing strata value are in no group
C23_WitnessMissing ==
    /\ pc = "done"
    /\ Stratified
    /\ copies = 5
    /\ Len(df.data) = 2
    /\ StrataValues = {Num(1)}
    /\ Len(sv_result.strata.results) = 1
    /\ sv_result.strata.results[1].n = 5

----------------------------------------------------------------------------
(* Properties of moving_average_smooth, checked under SpecMovingAverage *)

MaReturned == caller = "moving_average_smooth" /\ pc = "done"

\* the positions whose window is cut by an end of the series
Boundary(k) ==
    LET half_window == OddWindow(ma_window_size) \div 2
    IN  k < half_window \/ k >= Len0(qx) - half_window

\* C24: in moving_average_smooth, at every position (interior and boundary,
\* for any series length n >= 1 and any window size) the weights applied to
\* the window are non-negative and sum to 1, so the output has the length of
\* the input, a constant series is returned unchanged, and every output value
\* lies between the minimum and the maximum of the input.
C24_WeightsSumToOne ==
    MaReturned =>
        /\ DOMAIN ret = DOMAIN qx
        /\ DOMAIN ma_weights = DOMAIN qx
        /\ \A k \in DOMAIN qx :
              /\ Len0(ma_weights[k]) >= 1
              /\ \A j \in DOMAIN ma_weights[k] : RLe(Zero, ma_weights[k][j])
              /\ SumFrom(ma_weights[k], 0) = One
              /\ \E a \in DOMAIN qx : RLe(qx[a], ret[k])
              /\ \E b \in DOMAIN qx : RLe(ret[k], qx[b])
        /\ (\A a, b \in DOMAIN qx : qx[a] = qx[b]) => ret = qx

\* a window of 5 on 5 values: position 2 is interior, the others are boundary
C24_Witness ==
    /\ MaReturned
    /\ ma_window_size = 5
    /\ ma_weighted
    /\ qx = (0 :> Zero @@ 1 :> Zero @@ 2 :> One @@ 3 :> Zero @@ 4 :> Zero)
    /\ ~Boundary(2) /\ Boundary(0)
    /\ ret[2] = <<1, 3>>
    /\ ret[0] = <<1, 4>>
    /\ ma_weights[0] = (0 :> <<1, 4>> @@ 1 :> <<1, 2>> @@ 2 :> <<1, 4>>)

\* a constant series under an even window size
C24_WitnessConstant ==
    /\ MaReturned
    /\ ma_window_size = 4
    /\ Len0(qx) = 4
    /\ \A k \in DOMAIN qx : qx[k] = <<1, 2>>
    /\ ret = qx

\* the place of qx[k] itself in the window of position k
OwnIndex(k) == k - Max2(0, k - OddWindow(ma_window_size) \div 2)

\* C25: with triangular weights, at every boundary position the weight given
\* to qx[i] itself is the largest weight of its truncated window, as it is at
\* the interior positions.
C25_EdgeOwnWeightLargest ==
    (MaReturned /\ ma_weighted) =>
        \A k \in DOMAIN qx : \A j \in DOMAIN ma_weights[k] :
            RLe(ma_weights[k][j], ma_weights[k][OwnIndex(k)])

----------------------------------------------------------------------------
(* Property of the column resolution, checked under SpecResolve *)

ResolutionSucceeded == time_col # NoneValue /\ event_col # NoneValue

\* C26: whenever the column resolution of compute_survival_dashboard succeeds,
\* the resolved time column and the resolved event column are two different
\* columns of the table, and after the renaming both a 'time' and an 'event'
\* column exist, for every combination of candidate-name match and fallback.
C26_ResolvedColumnsDistinct ==
    ResolutionSucceeded =>
        /\ time_col # event_col
        /\ {time_col, event_col} \subseteq ColumnSet(csv)
        /\ pc \notin {"sv_time_col", "sv_event_col", "sv_clean"} =>
              {"time", "event"} \subseteq ColumnSet(df)

----------------------------------------------------------------------------
(* Property of compute_life_table on empty input, checked under SpecLifeTable *)

\* C27: compute_life_table called with an empty ages and qx series returns an
\* empty table (zero rows) without raising.
C27_EmptyLifeTableReturned ==
    (caller = "compute_life_table" /\ Len0(ages) = 0 /\ Len0(qx) = 0 /\ Finished) =>
        /\ pc = "done"
        /\ error = ""
        /\ DOMAIN life_table = {}

----------------------------------------------------------------------------
(* Properties of the analysis jobs, checked under SpecJobs *)

\* the jobs of process_survival_job, process_glm_job and process_ml_survival_job
Processed == {j \in JobIds : job_kind[j] \in {"survival", "glm", "ml_survival"}}

StatusOf(j) == job_files[j].status

\* get_result(job_id) returns the result: the file exists and holds JSON
GetResultSucceeds(j) == result_files[j] = "json"

\* C28: for every job processed by process_survival_job, process_glm_job or
\* process_ml_survival_job the stored status only ever moves queued ->
\* started -> finished or queued -> started -> failed; the result file is
\* saved before the status becomes 'finished', so whenever a job's status is
\* 'finished' its result_path is set and get_result succeeds for it, and a
\* job with status 'failed' has a non-empty error field.
C28_JobLifecycle ==
    /\ [](\A j \in Processed :
            /\ job_files[j] # NoJobFile
            /\ StatusOf(j) \in {"queued", "started", "finished", "failed"}
            /\ StatusOf(j) = "finished" =>
                  /\ job_files[j].result_path = ResultPath(j)
                  /\ GetResultSucceeds(j)
            /\ StatusOf(j) = "failed" => job_files[j].error \notin {NoneValue, ""})
    /\ [][\A j \in Processed :
            StatusOf(j)' # StatusOf(j) =>
                \/ StatusOf(j) = "queued" /\ StatusOf(j)' = "started"
                \/ StatusOf(j) = "started" /\ StatusOf(j)' \in {"finished", "failed"}]_vars

\* one job finished with its result saved, the other failed in the analysis
C28_Witness ==
    /\ job_kind[1] = "survival" /\ job_pc[1] = "returned"
    /\ StatusOf(1) = "finished" /\ GetResultSucceeds(1)
    /\ job_kind[2] = "ml_survival" /\ job_pc[2] = "raised"
    /\ StatusOf(2) = "failed"
    /\ job_files[2].error = EmptyError \o "\nTraceback"

\* a job that failed while its result was written
C28_WitnessSaveFailed ==
    /\ job_kind[1] = "glm" /\ job_pc[1] = "raised"
    /\ StatusOf(1) = "failed"
    /\ job_files[1].error = SerializationError
    /\ result_files[1] = "partial"

\* C29: no job created by an analysis start endpoint remains in status
\* 'queued' after its process function has returned or raised: its stored
\* status is then 'finished' or 'failed'.
C29_NoJobLeftQueued ==
    \A j \in JobIds :
        job_pc[j] \in {"returned", "raised"} => StatusOf(j) \in {"finished", "failed"}

----------------------------------------------------------------------------
(* Property of the dataset registry, checked under SpecRegistry *)

\* C30: under any interleaving of concurrent register_dataset, update_dataset
\* and delete_dataset calls on different dataset ids no update is lost: after
\* all calls have completed the persisted registry holds every dataset that
\* was registered and not deleted, with its latest metadata.
C30_NoLostUpdate ==
    (caller = "dataset_registry" /\ \A t \in Threads : reg_pc[t] = "done") =>
        \A t \in Threads :
            CASE reg_op[t] = "register_dataset" -> registry_file[t] = "new"
              [] reg_op[t] = "delete_dataset" -> registry_file[t] = NoneValue
              [] reg_op[t] = "update_dataset" -> registry_file[t] \in {NoneValue, "updated"}

====
